---- MODULE Spec2Model ----
(***************************************************************************)
(* The intrusive AVL tree of src/src/map.c (AvlTree over AvlNode), with    *)
(* its two path trails (src/src/node_stack.c, src/src/bit_stack.c).        *)
(*                                                                         *)
(* A node is a number in 1..NumNodes, NULL is 0.  The tree is the record   *)
(* m = [root, len, left, right, bf, del, fault]: the AvlTree fields, the   *)
(* fields of every AvlNode, the number of deleter calls made on each node  *)
(* by the running operation, and how the operation ended.  Every public    *)
(* function of map.c is one action that runs the whole function.           *)
(***************************************************************************)
EXTENDS Integers, Sequences, FiniteSets, TLC

\* Number of distinct keys the caller of Spec uses (keys are 1..MaxKey).
MaxKey == 6

NULL == 0

Keys == 1..MaxKey

\* The caller owns one node per key of 1..MaxKey + 1, and a second node for
\* key 1.
NumNodes == MaxKey + 2

Nodes == 1..NumNodes

\* The key stored in the caller's struct around node n (Node::kv.first).
KeyOf(n) == IF n = NumNodes THEN 1 ELSE n

\* The nodes whose key is one of Keys.
OwnNodes == {n \in Nodes : KeyOf(n) \in Keys}

\* One node for each key of 1..MaxKey + 1.
DeepNodes == 1..(MaxKey + 1)

VARIABLES
    root,       \* AvlTree.root
    len,        \* AvlTree.len
    left,       \* AvlNode.left of every node
    right,      \* AvlNode.right of every node
    bf,         \* AvlNode.balance_factor of every node
    del,        \* deleter invocations per node during the last operation
    fac,        \* factory invocations during the last operation
    cmp,        \* comparator invocations during the last operation: how
                \* many (calls), and how many saw a tree already written (late)
    log,        \* what the last operation did, in order: its rotations,
                \* callback invocations and trail storage events
    fault,      \* "none", or how the last call aborted instead of returning
    ndebug,     \* TRUE: built with NDEBUG (assert() compiles to nothing)
    last,       \* the last call: its name, key, node argument and results
    ref,        \* the reference set: keys inserted and not since removed
    before,     \* the tree as it was when the last AvlTree_insert was called,
                \* kept while that insert's key is removed again
    stack,      \* a BitStack a caller works on alone, the bits it holds by
                \* the caller's account, and the last call with its result
    tree        \* the Tree draft of src/src/tree.c: the Tree, its TreeNodes,
                \* the heap they live in, and the last call with its results

vars == <<root, len, left, right, bf, del, fac, cmp, log, fault, ndebug,
          last, ref, before, stack, tree>>

\* The tree and node fields as one value, threaded through the functions.
Machine == [root |-> root, len |-> len, left |-> left, right |-> right,
            bf |-> bf, del |-> del, fac |-> fac, cmp |-> cmp, log |-> log,
            fault |-> fault]

\* The structure of a tree: its root, len and node fields.
Shape(m) == [root |-> m.root, len |-> m.len, left |-> m.left,
             right |-> m.right, bf |-> m.bf]

\* The operation running on m does ev to node, with detail x.
Logged(m, ev, node, x) ==
    [m EXCEPT !.log = Append(@, [ev |-> ev, node |-> node, x |-> x])]

\* The record of a double rotation whose balance factors are now stored:
\* the three nodes, bottom's balance factor before, and the three after.
DoubleRotated(m, ev, top, middle, bottom, was) ==
    Logged(m, ev, top,
           [middle |-> middle, bottom |-> bottom, was |-> was,
            top_bf |-> m.bf[top], middle_bf |-> m.bf[middle],
            bottom_bf |-> m.bf[bottom]])

Fail(m, how) == IF m.fault = "none" THEN [m EXCEPT !.fault = how] ELSE m

Ok(m) == m.fault = "none"

\* assert(cond): aborts in a debug build, is no code at all under NDEBUG.
Require(m, cond) == IF ndebug \/ cond THEN m ELSE Fail(m, "assert")

(***************************************************************************)
(* Comparator.                                                             *)
(***************************************************************************)
\* het_comparator(key, node): -1, 0 or 1 as key <, ==, > the node's key.
Compare(key, n) ==
    IF key < KeyOf(n) THEN -1 ELSE IF KeyOf(n) < key THEN 1 ELSE 0

\* The comparator is invoked on the tree m: one more call, a late one if
\* the running operation has already written to the tree it was called on.
Compared(m) ==
    [m EXCEPT !.cmp = [calls |-> @.calls + 1,
                       late  |-> @.late + IF Shape(m) = Shape(Machine)
                                          THEN 0 ELSE 1]]

\* The tree m with the comparator calls of the search that returned ret.
Searched(m, ret) == [m EXCEPT !.cmp = ret.cmp]

(***************************************************************************)
(* AvlNode** values: the address of tree.root or of one node's left/right. *)
(***************************************************************************)
RootPtr == [p |-> NULL, d |-> -1]

\* &n->left and &n->right.  With n == NULL these are the addresses 0 and
\* sizeof(AvlNode*): nothing can be read or written through them.
LeftPtr(n) == [p |-> n, d |-> 1]

RightPtr(n) == [p |-> n, d |-> 0]

\* The NULL AvlNode**.
NoPtr == [p |-> NULL, d |-> -2]

Deref(m, ptr) ==
    IF ptr.d = -1 THEN m.root
    ELSE IF ptr.p = NULL THEN NULL
    ELSE IF ptr.d = 1 THEN m.left[ptr.p] ELSE m.right[ptr.p]

\* *ptr = v.  A store through a pointer formed from NULL faults.
Store(m, ptr, v) ==
    IF ptr.d = -1 THEN [m EXCEPT !.root = v]
    ELSE IF ptr.p = NULL THEN Fail(m, "segv")
    ELSE IF ptr.d = 1 THEN [m EXCEPT !.left[ptr.p] = v]
    ELSE [m EXCEPT !.right[ptr.p] = v]

(***************************************************************************)
(* BitStack (src/src/bit_stack.c): the direction trail.  A BitStack is the *)
(* record [data, len, capacity, is_owned, blocks]: data[i + 1] is bit      *)
(* i % BITS_PER_WORD of word i / BITS_PER_WORD of the storage, and blocks  *)
(* counts the heap blocks the stack has allocated and not released.        *)
(***************************************************************************)
\* CHAR_BIT * sizeof(unsigned long), for a 64-bit unsigned long.
BITS_PER_WORD == 64

IS_LEFT_FLAGS_BUF_SZ == 3

\* The value of a bit of storage that was never written.
Indeterminate == 2

\* n bits of storage that nothing has written yet: a local array, or the
\* block malloc returns.
Unwritten(n) == [i \in 1..n |-> Indeterminate]

\* The stack uses the caller's array of words words, which it does not own.
BitStack_from_adopted_slice(words) ==
    [data |-> Unwritten(words * BITS_PER_WORD), len |-> 0,
     capacity |-> words * BITS_PER_WORD, is_owned |-> 0, blocks |-> 0]

\* free(self->data) if the stack owns its storage.
BitStack_drop(bits) ==
    IF bits.is_owned # 0 /\ bits.blocks > 0
    THEN [bits EXCEPT !.blocks = @ - 1] ELSE bits

\* (self->capacity / BITS_PER_WORD + 1) * 3 / 2
new_word_count(bits) == ((bits.capacity \div BITS_PER_WORD + 1) * 3) \div 2

\* A stack with no storage gets one word; storage the stack owns is
\* reallocated (its contents kept); adopted storage is replaced by a new
\* block, to which nothing is copied.
grow_if_full(bits) ==
    IF bits.len < bits.capacity THEN bits
    ELSE IF bits.capacity = 0
    THEN [bits EXCEPT !.data = Unwritten(BITS_PER_WORD),
                      !.capacity = BITS_PER_WORD, !.blocks = @ + 1]
    ELSE IF bits.is_owned # 0
    THEN [bits EXCEPT
            !.data = @ \o Unwritten(new_word_count(bits) * BITS_PER_WORD
                                      - bits.capacity),
            !.capacity = new_word_count(bits) * BITS_PER_WORD]
    ELSE [bits EXCEPT
            !.data = Unwritten(new_word_count(bits) * BITS_PER_WORD),
            !.capacity = new_word_count(bits) * BITS_PER_WORD,
            !.blocks = @ + 1]

\* self->data[word_idx] |= (1ul << bit_idx); ++self->len, after the growth.
BitStack_push_set(bits) ==
    [grow_if_full(bits) EXCEPT !.data[bits.len + 1] = 1, !.len = @ + 1]

\* self->data[word_idx] &= ~(1ul << bit_idx); ++self->len, after the growth.
BitStack_push_clear(bits) ==
    [grow_if_full(bits) EXCEPT !.data[bits.len + 1] = 0, !.len = @ + 1]

BitStack_clear(bits) == [bits EXCEPT !.len = 0]

BitStack_len(bits) == bits.len

\* The bit `index` elements from the top, -1 if there is none.  The index is
\* a size_t: a negative argument arrives as a huge value and is out of range.
\* BitStack_get answering an out-of-range index like a clear bit.
BitStack_get_unchecked(bits, index) ==
    IF index < 0 \/ bits.len <= index THEN 0
    ELSE bits.data[bits.len - index]

BitStack_get(bits, index) ==
    IF index < 0 \/ bits.len <= index THEN -1
    ELSE bits.data[bits.len - index]

\* [bit, bits]: the popped bit (-1 if empty) and the stack after the pop.
BitStack_pop(bits) ==
    IF bits.len = 0 THEN [bit |-> -1, bits |-> bits]
    ELSE [bit |-> bits.data[bits.len], bits |-> [bits EXCEPT !.len = @ - 1]]

(***************************************************************************)
(* Search.                                                                 *)
(***************************************************************************)
RECURSIVE find(_, _, _)
find(m, n, key) ==
    IF n = NULL THEN NULL
    ELSE LET ordering == Compare(key, n)
         IN  IF ordering = 0 THEN n
             ELSE IF ordering < 0 THEN find(m, m.left[n], key)
             ELSE find(m, m.right[n], key)

\* find with the two branches of the descent exchanged.
RECURSIVE find_exchanged(_, _, _)
find_exchanged(m, n, key) ==
    IF n = NULL THEN NULL
    ELSE LET ordering == Compare(key, n)
         IN  IF ordering = 0 THEN n
             ELSE IF ordering < 0 THEN find_exchanged(m, m.right[n], key)
             ELSE find_exchanged(m, m.left[n], key)

AvlTree_get_exchanged(m, key) == find_exchanged(m, m.root, key)

AvlTree_get(m, key) == find(m, m.root, key)

AvlTree_get_mut(m, key) == find(m, m.root, key)

\* Lines 312-318 with the branches exchanged.
find_descend_exchanged(current, ordering, flags) ==
    IF ordering > 0
    THEN [current_ptr |-> LeftPtr(current), flags |-> BitStack_push_set(flags)]
    ELSE [current_ptr |-> RightPtr(current), flags |-> BitStack_push_clear(flags)]

\* Lines 312-318: one step down, recorded on the direction trail.
find_descend(current, ordering, flags) ==
    IF ordering < 0
    THEN [current_ptr |-> LeftPtr(current), flags |-> BitStack_push_set(flags)]
    ELSE [current_ptr |-> RightPtr(current), flags |-> BitStack_push_clear(flags)]

RECURSIVE find_node_or_parent_loop(_, _, _, _, _)
find_node_or_parent_loop(m, key, current_ptr, rotate_root_ptr, flags) ==
    LET current  == Deref(m, current_ptr)
        ordering == Compare(key, current)
    IN  IF ordering = 0
        THEN [is_node |-> 1, node_or_parent |-> current_ptr,
              last_with_nonzero_balance_factor |-> NoPtr, is_left_flags |-> flags,
              cmp |-> Compared(m).cmp]
        ELSE LET nonzero == m.bf[current] # 0
                 rr == IF nonzero THEN current_ptr ELSE rotate_root_ptr
                 down == find_descend(current, ordering,
                             IF nonzero THEN BitStack_clear(flags) ELSE flags)
             IN  IF Deref(m, down.current_ptr) = NULL
                 THEN [is_node |-> 0, node_or_parent |-> down.current_ptr,
                       last_with_nonzero_balance_factor |-> rr,
                       is_left_flags |-> down.flags, cmp |-> Compared(m).cmp]
                 ELSE find_node_or_parent_loop(Compared(m), key,
                                               down.current_ptr, rr, down.flags)

\* find_node_or_parent without lines 307-310: the rotate root stays at the
\* root of the tree and the trail holds the whole descent.
find_node_or_parent_unfocused(m, key) ==
    IF m.root = NULL
    THEN [is_node |-> 0, node_or_parent |-> RootPtr,
          last_with_nonzero_balance_factor |-> NoPtr,
          is_left_flags |-> BitStack_from_adopted_slice(IS_LEFT_FLAGS_BUF_SZ),
          cmp |-> m.cmp]
    ELSE find_node_or_parent_loop([m EXCEPT !.bf = [n \in Nodes |-> 0]], key,
                                  RootPtr, RootPtr,
                                  BitStack_from_adopted_slice(IS_LEFT_FLAGS_BUF_SZ))

find_node_or_parent(m, key) ==
    IF m.root = NULL
    THEN [is_node |-> 0, node_or_parent |-> RootPtr,
          last_with_nonzero_balance_factor |-> NoPtr,
          is_left_flags |-> BitStack_from_adopted_slice(IS_LEFT_FLAGS_BUF_SZ),
          cmp |-> m.cmp]
    ELSE find_node_or_parent_loop(m, key, RootPtr, RootPtr,
                                  BitStack_from_adopted_slice(IS_LEFT_FLAGS_BUF_SZ))

(***************************************************************************)
(* Rotation primitives (declared in src/src/node.h; their definitions are   *)
(* not among the sources, so they follow the documented contract: pure      *)
(* pointer rewiring, and for the checked variants the balance factors of    *)
(* the rotation case).  Each returns [m, top]: the tree after the rotation  *)
(* and the new root of the rotated subtree.                                 *)
(***************************************************************************)
\* top.right == bottom: top.right := bottom.left; bottom.left := top.
rotate_left_unchecked(m, top, bottom) ==
    [m   |-> Logged([m EXCEPT !.right[top] = m.left[bottom],
                              !.left[bottom] = top],
                    "rotate_left", top, bottom),
     top |-> bottom]

\* top.left == bottom: top.left := bottom.right; bottom.right := top.
rotate_right_unchecked(m, top, bottom) ==
    [m   |-> Logged([m EXCEPT !.left[top] = m.right[bottom],
                              !.right[bottom] = top],
                    "rotate_right", top, bottom),
     top |-> bottom]

\* top.bf == 2, bottom.bf == 1: both become 0.
rotate_left(m, top, bottom) ==
    LET r == rotate_left_unchecked(m, top, bottom)
    IN  [m   |-> [r.m EXCEPT !.bf[top] = 0, !.bf[bottom] = 0],
         top |-> bottom]

\* top.bf == -2, bottom.bf == -1: both become 0.
rotate_right(m, top, bottom) ==
    LET r == rotate_right_unchecked(m, top, bottom)
    IN  [m   |-> [r.m EXCEPT !.bf[top] = 0, !.bf[bottom] = 0],
         top |-> bottom]

\* top.left == middle, middle.right == bottom: left around middle, then
\* right around top; balance factors from bottom's pre-rotation value.
rotate_leftright(m, top, middle, bottom) ==
    LET b  == m.bf[bottom]
        r1 == rotate_left_unchecked(m, middle, bottom)
        m1 == [r1.m EXCEPT !.left[top] = r1.top]
        r2 == rotate_right_unchecked(m1, top, bottom)
    IN  [m   |-> DoubleRotated([r2.m EXCEPT
                    !.bf[top]    = IF b = -1 THEN 1 ELSE 0,
                    !.bf[middle] = IF b = 1 THEN -1 ELSE 0,
                    !.bf[bottom] = 0],
                           "leftright", top, middle, bottom, b),
         top |-> bottom]

\* top.right == middle, middle.left == bottom: right around middle, then
\* left around top.
rotate_rightleft(m, top, middle, bottom) ==
    LET b  == m.bf[bottom]
        r1 == rotate_right_unchecked(m, middle, bottom)
        m1 == [r1.m EXCEPT !.right[top] = r1.top]
        r2 == rotate_left_unchecked(m1, top, bottom)
    IN  [m   |-> DoubleRotated([r2.m EXCEPT
                    !.bf[top]    = IF b = 1 THEN -1 ELSE 0,
                    !.bf[middle] = IF b = -1 THEN 1 ELSE 0,
                    !.bf[bottom] = 0],
                           "rightleft", top, middle, bottom, b),
         top |-> bottom]

\* rotate() rotating towards the lighter side of every node that leans.
rotate_eager(m, n) ==
    IF m.bf[n] >= 1 /\ m.right[n] # NULL
    THEN rotate_left_unchecked(m, n, m.right[n])
    ELSE IF m.bf[n] <= -1 /\ m.left[n] # NULL
    THEN rotate_right_unchecked(m, n, m.left[n])
    ELSE [m |-> m, top |-> n]

\* Selects the rotation from root's balance factor and its heavy child's.
rotate(m, n) ==
    IF m.bf[n] = 2 /\ m.right[n] # NULL
    THEN LET r == m.right[n]
         IN  IF m.bf[r] = 1 THEN rotate_left(m, n, r)
             ELSE IF m.bf[r] = -1 /\ m.left[r] # NULL
                  THEN rotate_rightleft(m, n, r, m.left[r])
             ELSE [m |-> m, top |-> n]
    ELSE IF m.bf[n] = -2 /\ m.left[n] # NULL
    THEN LET l == m.left[n]
         IN  IF m.bf[l] = -1 THEN rotate_right(m, n, l)
             ELSE IF m.bf[l] = 1 /\ m.right[l] # NULL
                  THEN rotate_leftright(m, n, l, m.right[l])
             ELSE [m |-> m, top |-> n]
    ELSE [m |-> m, top |-> n]

(***************************************************************************)
(* The debug verifier of map.c.                                            *)
(***************************************************************************)
MAX(x, y) == IF x < y THEN y ELSE x

\* The height do_assert_balance_factors returns for the subtree at n.
RECURSIVE Height(_, _)
Height(m, n) ==
    IF n = NULL THEN 0
    ELSE MAX(Height(m, m.left[n]), Height(m, m.right[n])) + 1

\* TRUE when no assert of do_assert_balance_factors fires below n.
RECURSIVE BalanceFactorsCorrect(_, _)
BalanceFactorsCorrect(m, n) ==
    \/ n = NULL
    \/ /\ BalanceFactorsCorrect(m, m.left[n])
       /\ BalanceFactorsCorrect(m, m.right[n])
       /\ m.bf[n] = Height(m, m.right[n]) - Height(m, m.left[n])

assert_correct_balance_factors(m) ==
    IF Ok(m) THEN Require(m, BalanceFactorsCorrect(m, m.root)) ELSE m

(***************************************************************************)
(* Insert.                                                                 *)
(***************************************************************************)
RECURSIVE rebalance_loop(_, _, _, _, _)
rebalance_loop(m, flags, depth_from_root, current, inserted) ==
    IF current = inserted THEN m
    ELSE IF current = NULL THEN Fail(m, "segv")
    ELSE LET is_left == BitStack_get(flags, depth_from_root)
             m1 == Require(m, is_left # -1)
         IN  IF ~Ok(m1) THEN m1
             ELSE IF is_left # 0
             THEN rebalance_loop([m1 EXCEPT !.bf[current] = @ - 1], flags,
                                 depth_from_root - 1, m1.left[current], inserted)
             ELSE rebalance_loop([m1 EXCEPT !.bf[current] = @ + 1], flags,
                                 depth_from_root - 1, m1.right[current], inserted)

\* rebalance without the rotation of line 353.
rebalance_unrotated(m, flags, root_ptr, inserted) ==
    rebalance_loop(m, flags, BitStack_len(flags) - 1, Deref(m, root_ptr),
                   inserted)

\* rebalance with the result of rotate() not stored to *root_ptr.
rebalance_unstored(m, flags, root_ptr, inserted) ==
    LET m1 == rebalance_loop(m, flags, BitStack_len(flags) - 1,
                             Deref(m, root_ptr), inserted)
    IN  IF Ok(m1) THEN rotate(m1, Deref(m1, root_ptr)).m ELSE m1

rebalance(m, flags, root_ptr, inserted) ==
    LET m1 == rebalance_loop(m, flags, BitStack_len(flags) - 1,
                             Deref(m, root_ptr), inserted)
        r  == rotate(m1, Deref(m1, root_ptr))
    IN  IF Ok(m1) THEN Store(r.m, root_ptr, r.top) ELSE m1

\* Lines 182-190 without the copy of the balance factor.
insert_replace_no_factor(m, node_ptr, previous, node) ==
    [Store(m, node_ptr, node) EXCEPT
        !.left[node]  = m.left[previous],
        !.right[node] = m.right[previous],
        !.left[previous]  = NULL,
        !.right[previous] = NULL,
        !.bf[previous]    = 0]

\* Lines 182-190: node takes the place of previous, which is detached.
insert_replace(m, node_ptr, previous, node) ==
    [Store(m, node_ptr, node) EXCEPT
        !.left[node]  = m.left[previous],
        !.right[node] = m.right[previous],
        !.bf[node]    = m.bf[previous],
        !.left[previous]  = NULL,
        !.right[previous] = NULL,
        !.bf[previous]    = 0]

\* BitStack_drop(&is_left_flags): the blocks the trail still holds are
\* put on record.
BitStack_dropped(m, bits) ==
    Logged(m, "BitStack_drop", NULL, BitStack_drop(bits).blocks)

\* Lines 192-198: the new leaf is counted and linked.
insert_link(m, node_ptr, node) ==
    [Store([m EXCEPT !.len = @ + 1], node_ptr, node) EXCEPT
        !.left[node] = NULL, !.right[node] = NULL, !.bf[node] = 0]

\* Lines 200-203 for the state after the link.
insert_rebalance(m, ret, node) ==
    IF ret.last_with_nonzero_balance_factor # NoPtr
    THEN assert_correct_balance_factors(
             rebalance(m, ret.is_left_flags,
                       ret.last_with_nonzero_balance_factor, node))
    ELSE m

\* Lines 180-208 for the outcome ret of the search; [m, previous].
insert_found(m, ret, node) ==
    IF ret.is_node = 1
    THEN [m |-> BitStack_dropped(
                    insert_replace(Searched(m, ret), ret.node_or_parent,
                                   Deref(m, ret.node_or_parent), node),
                    ret.is_left_flags),
          previous |-> Deref(m, ret.node_or_parent)]
    ELSE [m |-> BitStack_dropped(
                    insert_rebalance(
                        insert_link(Searched(m, ret), ret.node_or_parent, node),
                        ret, node),
                    ret.is_left_flags),
          previous |-> NULL]

\* AvlTree_insert with ++self->len done before the search.
AvlTree_insert_counted_first(m, node) ==
    insert_found(m, find_node_or_parent([m EXCEPT !.len = @ + 1], KeyOf(node)),
                 node)

\* [m, previous]: the tree afterwards and the returned node.
AvlTree_insert(m, node) ==
    insert_found(m, find_node_or_parent(m, KeyOf(node)), node)

\* equal_or_inserted = insert(key, insert_arg): one more factory call.
\* The factory is handed the tree as it is at that moment.
insert_factory(m) ==
    Logged([m EXCEPT !.fac = @ + 1], "factory", NULL, Shape(m))

\* Lines 251-258: the entry is counted, made by the factory, reset and
\* linked.  A NULL from the factory fails assert(equal_or_inserted) in a
\* debug build and is written through under NDEBUG.
get_or_insert_link(m, node_ptr, made) ==
    IF made = NULL
    THEN Fail(Require(insert_factory([m EXCEPT !.len = @ + 1]), FALSE), "segv")
    ELSE [Store(insert_factory([m EXCEPT !.len = @ + 1]), node_ptr, made)
             EXCEPT !.left[made] = NULL, !.right[made] = NULL, !.bf[made] = 0]

\* Lines 265-268 for the state after the link.
get_or_insert_rebalance(m, ret, made) ==
    IF Ok(m) /\ ret.last_with_nonzero_balance_factor # NoPtr
    THEN assert_correct_balance_factors(
             rebalance(m, ret.is_left_flags,
                       ret.last_with_nonzero_balance_factor, made))
    ELSE m

\* Lines 244-269 with the factory called for a present key as well.
get_or_insert_found_eager(m, ret, made) ==
    IF ret.is_node = 1
    THEN [m |-> insert_factory(Searched(m, ret)),
          equal_or_inserted |-> Deref(m, ret.node_or_parent), inserted |-> 0]
    ELSE [m |-> get_or_insert_rebalance(
                    get_or_insert_link(Searched(m, ret), ret.node_or_parent,
                                       made),
                    ret, made),
          equal_or_inserted |-> made, inserted |-> 1]

\* Lines 244-269 for the outcome ret of the search.
get_or_insert_found(m, ret, made) ==
    IF ret.is_node = 1
    THEN [m |-> BitStack_dropped(Searched(m, ret), ret.is_left_flags),
          equal_or_inserted |-> Deref(m, ret.node_or_parent), inserted |-> 0]
    ELSE [m |-> BitStack_dropped(
                    get_or_insert_rebalance(
                        get_or_insert_link(Searched(m, ret),
                                           ret.node_or_parent, made),
                        ret, made),
                    ret.is_left_flags),
          equal_or_inserted |-> made, inserted |-> 1]

\* [m, equal_or_inserted, inserted]; made is the node the factory returns
\* when it is called.
AvlTree_get_or_insert(m, key, made) ==
    get_or_insert_found(m, find_node_or_parent(m, key), made)

(***************************************************************************)
(* NodeStack: the node trail of AvlTree_remove.  During a removal the      *)
(* machine record carries the locals of the call as well: nodes (the       *)
(* stack's data[0..len-1]), capacity, and flags (the BitStack).            *)
(***************************************************************************)
\* ceil(1.44 * log2(num_nodes + 1.065) - 0.328) for num_nodes = 0, 1, ...
max_height_values == <<0, 2, 2, 3, 4, 4, 4, 5, 5, 5, 5, 5, 6, 6, 6, 6, 6, 6, 6, 6>>

\* The height of a tree that is no more than its root.
max_height_flat(num_nodes) == IF num_nodes = 0 THEN 0 ELSE 1

max_height(num_nodes) == max_height_values[num_nodes + 1]

NodeStack_with_capacity(m, size) ==
    [root |-> m.root, len |-> m.len, left |-> m.left, right |-> m.right,
     bf |-> m.bf, del |-> m.del, fac |-> m.fac, cmp |-> m.cmp,
     log |-> IF size = 0 THEN m.log
             ELSE Append(m.log, [ev |-> "NodeStack_malloc", node |-> NULL,
                                 x |-> size]),
     fault |-> m.fault,
     nodes |-> << >>, capacity |-> size,
     flags |-> BitStack_from_adopted_slice(IS_LEFT_FLAGS_BUF_SZ)]

\* free(self->data), and the locals of the call go away.
NodeStack_drop(ms) ==
    [root |-> ms.root, len |-> ms.len, left |-> ms.left, right |-> ms.right,
     bf |-> ms.bf, del |-> ms.del, fac |-> ms.fac, cmp |-> ms.cmp,
     log |-> IF ms.capacity = 0 THEN ms.log
             ELSE Append(ms.log, [ev |-> "NodeStack_free", node |-> NULL,
                                  x |-> ms.capacity]),
     fault |-> ms.fault]

NodeStack_len(ms) == Len(ms.nodes)

NodeStack_push(ms, node) ==
    LET grown == IF ms.capacity # Len(ms.nodes) THEN ms
                 ELSE IF ms.capacity = 0
                 THEN Logged([ms EXCEPT !.capacity = 8],
                             "NodeStack_malloc", NULL, 8)
                 ELSE Logged([Require(ms, ms.capacity >= 8)
                                 EXCEPT !.capacity = (ms.capacity * 3) \div 2],
                             "NodeStack_realloc", NULL, ms.capacity)
    IN  IF Ok(grown)
        THEN Logged([grown EXCEPT !.nodes = Append(@, node)],
                    "NodeStack_push", node, grown.capacity - Len(ms.nodes) - 1)
        ELSE grown

\* [ms, node]: the popped node (NULL if empty) and the state after the pop.
NodeStack_pop(ms) ==
    IF Len(ms.nodes) = 0 THEN [ms |-> ms, node |-> NULL]
    ELSE [ms   |-> [ms EXCEPT !.nodes = SubSeq(@, 1, Len(@) - 1)],
          node |-> ms.nodes[Len(ms.nodes)]]

\* node_stack.c: the node `index` elements from the top, where index is a
\* size_t, so that a negative argument is a huge index and yields NULL.
NodeStack_get(ms, index) ==
    IF index < 0 \/ Len(ms.nodes) <= index THEN NULL
    ELSE ms.nodes[Len(ms.nodes) - index]

\* The record of a NodeStack_get call: the index, the node returned, and
\* the node on top of the stack (NULL when it is empty).
NodeStack_got(ms, index) ==
    Logged(ms, "NodeStack_get", NodeStack_get(ms, index),
           [index |-> index,
            top |-> IF NodeStack_len(ms) = 0 THEN NULL
                    ELSE ms.nodes[NodeStack_len(ms)]])

\* node_stack.h: the slot `index` elements from the bottom, a negative index
\* counting from the top; 0 stands for the NULL slot pointer.
NodeStack_get_mut(ms, index) ==
    IF index >= 0
    THEN IF index < Len(ms.nodes) THEN index + 1 ELSE 0
    ELSE IF Len(ms.nodes) + index >= 0 THEN Len(ms.nodes) + index + 1 ELSE 0

(***************************************************************************)
(* Remove.  Each function of map.c is split where a later statement uses   *)
(* the state an earlier one left: the state is handed on as an argument.    *)
(***************************************************************************)
\* A result of one pass of the retrace loop: the state, and whether the
\* loop goes on to the parent (FALSE: it returned or broke out).
Pass(ms, continue) == [ms |-> ms, continue |-> continue]

\* x->field with x == NULL: the assert before it fires in a debug build,
\* the read faults under NDEBUG.
NullFault(ms) == Fail(Require(ms, FALSE), "segv")

\* node->right = <rotation result>, node->left = <rotation result>.
AssignRight(r, node) == [r.m EXCEPT !.right[node] = r.top]

AssignLeft(r, node) == [r.m EXCEPT !.left[node] = r.top]

\* *parent_ptr = <rotation result>.
AssignPtr(r, parent_ptr) == Store(r.m, parent_ptr, r.top)

\* Lines 546-559: the balance factors after the right-left rotation.
retrace_rightleft_factors(ms, node, middle, bottom) ==
    IF ~Ok(ms) THEN Pass(ms, FALSE)
    ELSE IF ms.bf[bottom] = 1
    THEN Pass(DoubleRotated([ms EXCEPT !.bf[node] = -1, !.bf[middle] = 0, !.bf[bottom] = 0],
                            "rightleft", node, middle, bottom, ms.bf[bottom]),
              TRUE)
    ELSE IF ms.bf[bottom] = 0
    THEN Pass(DoubleRotated([ms EXCEPT !.bf[node] = 0, !.bf[middle] = 0, !.bf[bottom] = 0],
                            "rightleft", node, middle, bottom, ms.bf[bottom]),
              TRUE)
    ELSE IF ~Ok(Require(ms, ms.bf[bottom] = -1))
    THEN Pass(Require(ms, ms.bf[bottom] = -1), FALSE)
    ELSE Pass(DoubleRotated([ms EXCEPT !.bf[node] = 0, !.bf[middle] = 1, !.bf[bottom] = 0],
                            "rightleft", node, middle, bottom, ms.bf[bottom]),
              TRUE)

\* Lines 565-575: the balance factors after the single left rotation.
retrace_left_factors(ms, node, bottom) ==
    IF ~Ok(ms) THEN Pass(ms, FALSE)
    ELSE IF ms.bf[bottom] = 0
    THEN Pass([ms EXCEPT !.bf[bottom] = -1, !.bf[node] = 1], FALSE)
    ELSE IF ~Ok(Require(ms, ms.bf[bottom] = 1))
    THEN Pass(Require(ms, ms.bf[bottom] = 1), FALSE)
    ELSE Pass([ms EXCEPT !.bf[bottom] = 0, !.bf[node] = 0], TRUE)

\* Lines 533-577: node.bf was raised to 2.
retrace_right_heavy(ms, node, parent_ptr, middle_or_bottom) ==
    IF middle_or_bottom = NULL THEN Pass(NullFault(ms), FALSE)
    ELSE IF ms.bf[middle_or_bottom] = -1
    THEN IF ms.left[middle_or_bottom] = NULL THEN Pass(NullFault(ms), FALSE)
         ELSE retrace_rightleft_factors(
                  AssignPtr(
                      rotate_left_unchecked(
                          AssignRight(
                              rotate_right_unchecked(ms, middle_or_bottom,
                                                     ms.left[middle_or_bottom]),
                              node),
                          node, ms.left[middle_or_bottom]),
                      parent_ptr),
                  node, middle_or_bottom, ms.left[middle_or_bottom])
    ELSE retrace_left_factors(
             AssignPtr(rotate_left_unchecked(ms, node, middle_or_bottom),
                       parent_ptr),
             node, middle_or_bottom)

\* The left-right rotation storing the balance factors of lines 546-559.
retrace_leftright_factors_as_rightleft(ms, node, middle, bottom) ==
    IF ~Ok(ms) THEN Pass(ms, FALSE)
    ELSE Pass(DoubleRotated(
                  [ms EXCEPT !.bf[node] = IF ms.bf[bottom] = 1 THEN -1 ELSE 0,
                             !.bf[middle] = IF ms.bf[bottom] = -1 THEN 1 ELSE 0,
                             !.bf[bottom] = 0],
                  "leftright", node, middle, bottom, ms.bf[bottom]),
              TRUE)

\* Lines 596-609: the balance factors after the left-right rotation.
retrace_leftright_factors(ms, node, middle, bottom) ==
    IF ~Ok(ms) THEN Pass(ms, FALSE)
    ELSE IF ms.bf[bottom] = -1
    THEN Pass(DoubleRotated([ms EXCEPT !.bf[node] = 1, !.bf[middle] = 0, !.bf[bottom] = 0],
                            "leftright", node, middle, bottom, ms.bf[bottom]),
              TRUE)
    ELSE IF ms.bf[bottom] = 0
    THEN Pass(DoubleRotated([ms EXCEPT !.bf[node] = 0, !.bf[middle] = 0, !.bf[bottom] = 0],
                            "leftright", node, middle, bottom, ms.bf[bottom]),
              TRUE)
    ELSE IF ~Ok(Require(ms, ms.bf[bottom] = 1))
    THEN Pass(Require(ms, ms.bf[bottom] = 1), FALSE)
    ELSE Pass(DoubleRotated([ms EXCEPT !.bf[node] = 0, !.bf[middle] = -1, !.bf[bottom] = 0],
                            "leftright", node, middle, bottom, ms.bf[bottom]),
              TRUE)

\* Lines 615-625: the balance factors after the single right rotation.
retrace_right_factors(ms, node, bottom) ==
    IF ~Ok(ms) THEN Pass(ms, FALSE)
    ELSE IF ms.bf[bottom] = 0
    THEN Pass([ms EXCEPT !.bf[bottom] = 1, !.bf[node] = -1], FALSE)
    ELSE IF ~Ok(Require(ms, ms.bf[bottom] = -1))
    THEN Pass(Require(ms, ms.bf[bottom] = -1), FALSE)
    ELSE Pass([ms EXCEPT !.bf[bottom] = 0, !.bf[node] = 0], TRUE)

\* Lines 583-627: node.bf was lowered to -2.
retrace_left_heavy(ms, node, parent_ptr, middle_or_bottom) ==
    IF middle_or_bottom = NULL THEN Pass(NullFault(ms), FALSE)
    ELSE IF ms.bf[middle_or_bottom] = 1
    THEN IF ms.right[middle_or_bottom] = NULL THEN Pass(NullFault(ms), FALSE)
         ELSE retrace_leftright_factors(
                  AssignPtr(
                      rotate_right_unchecked(
                          AssignLeft(
                              rotate_left_unchecked(ms, middle_or_bottom,
                                                    ms.right[middle_or_bottom]),
                              node),
                          node, ms.right[middle_or_bottom]),
                      parent_ptr),
                  node, middle_or_bottom, ms.right[middle_or_bottom])
    ELSE retrace_right_factors(
             AssignPtr(rotate_right_unchecked(ms, node, middle_or_bottom),
                       parent_ptr),
             node, middle_or_bottom)

\* Lines 529-533 and 579-583, after ++node->balance_factor (deleted on the
\* left) or --node->balance_factor (deleted on the right).
retrace_adjusted(ms, node, is_left, parent_ptr) ==
    IF is_left # 0
    THEN IF ms.bf[node] = 1 THEN Pass(ms, FALSE)
         ELSE IF ms.bf[node] = 2
         THEN retrace_right_heavy(ms, node, parent_ptr, ms.right[node])
         ELSE Pass(ms, TRUE)
    ELSE IF ms.bf[node] = -1 THEN Pass(ms, FALSE)
         ELSE IF ms.bf[node] = -2
         THEN retrace_left_heavy(ms, node, parent_ptr, ms.left[node])
         ELSE Pass(ms, TRUE)

\* The record of one pass of the retrace loop, made once the balance factor
\* of node is adjusted: the new value, the child on the heavy side with its
\* balance factor when the new value is 2 or -2, the number of nodes and
\* of bits left on the trails, what BitStack_get(is_left_flags, 0) gave,
\* and whether parent_ptr is &self->root.
Retraced(ms, node, is_left, parent_ptr) ==
    LET heavy == IF ms.bf[node] = 2 THEN ms.right[node]
                 ELSE IF ms.bf[node] = -2 THEN ms.left[node]
                 ELSE NULL
    IN  Logged(ms, "retrace", node,
               [is_left |-> is_left, bf |-> ms.bf[node], heavy |-> heavy,
                sibling |-> IF heavy = NULL THEN 0 ELSE ms.bf[heavy],
                depth |-> NodeStack_len(ms),
                bits |-> BitStack_len(ms.flags),
                parent_dir |-> BitStack_get(ms.flags, 0),
                root_edge |-> parent_ptr = RootPtr])

\* The record of the break at line 509: what the two pops returned and
\* what is left on the two trails.
RetraceStopped(ms, node, is_left) ==
    Logged(ms, "retrace_stop", node,
           [is_left |-> is_left, depth |-> NodeStack_len(ms),
            bits |-> BitStack_len(ms.flags)])

\* The retrace with no balance factor adjusted and nothing rotated.
retrace_step_unadjusted(ms, node, is_left, parent_ptr) == Pass(ms, FALSE)

\* Lines 526-628: assert(node == *parent_ptr), then the adjustment.
retrace_step(ms, node, is_left, parent_ptr) ==
    IF ~Ok(ms) THEN Pass(ms, FALSE)
    ELSE IF ~Ok(Require(ms, node = Deref(ms, parent_ptr)))
    THEN Pass(Require(ms, node = Deref(ms, parent_ptr)), FALSE)
    ELSE retrace_adjusted(
             Retraced([ms EXCEPT !.bf[node] = IF is_left # 0 THEN @ + 1
                                              ELSE @ - 1],
                      node, is_left, parent_ptr),
             node, is_left, parent_ptr)

\* Lines 513-524: the edge that points at the popped node.
retrace_parent_ptr(ms, parent_dir) ==
    IF parent_dir = -1 THEN RootPtr
    ELSE IF parent_dir # 0 THEN LeftPtr(NodeStack_get(ms, -1))
    ELSE RightPtr(NodeStack_get(ms, -1))

\* Line 517: assert(parent), reached when the popped node is not the root.
retrace_parent_checked(ms, parent_dir) ==
    IF parent_dir = -1 THEN ms
    ELSE Require(NodeStack_got(ms, -1), NodeStack_get(ms, -1) # NULL)

RECURSIVE update_balance_factors_and_rebalance(_)

\* The end of one pass: back to the top of while (1), or out.
retrace_next(pass) ==
    IF Ok(pass.ms) /\ pass.continue
    THEN update_balance_factors_and_rebalance(pass.ms)
    ELSE pass.ms

\* Lines 509-628 for the popped node and bit; ms is the state after both pops.
retrace_popped(ms, node, is_left) ==
    IF node = NULL \/ is_left = -1 THEN RetraceStopped(ms, node, is_left)
    ELSE retrace_next(
             retrace_step(
                 retrace_parent_checked(ms, BitStack_get(ms.flags, 0)),
                 node, is_left,
                 retrace_parent_ptr(ms, BitStack_get(ms.flags, 0))))

update_balance_factors_and_rebalance(ms) ==
    retrace_popped(
        [NodeStack_pop(ms).ms EXCEPT !.flags = BitStack_pop(ms.flags).bits],
        NodeStack_pop(ms).node,
        BitStack_pop(ms.flags).bit)

\* Lines 471-475: the walk to the leftmost node below *successor_ptr;
\* [ms, successor_ptr].
RECURSIVE successor_walk(_, _)
successor_walk(ms, successor_ptr) ==
    IF ~Ok(ms) \/ ms.left[Deref(ms, successor_ptr)] = NULL
    THEN [ms |-> ms, successor_ptr |-> successor_ptr]
    ELSE successor_walk(
             NodeStack_push([ms EXCEPT !.flags = BitStack_push_set(@)],
                            ms.left[Deref(ms, successor_ptr)]),
             LeftPtr(Deref(ms, successor_ptr)))

\* Line 493: *NodeStack_get_mut(nodes, swap_idx) = successor.
swap_patch_trail(ms, slot, successor) ==
    IF slot = 0 THEN Fail(ms, "segv")
    ELSE [ms EXCEPT !.nodes[slot] = successor]

\* Lines 482-485: the successor leaves its place below node->right.
swap_unlink_successor(ms, node, successor_ptr, successor) ==
    IF successor # ms.right[node]
    THEN [Store(ms, successor_ptr, ms.right[successor])
             EXCEPT !.right[successor] = ms.right[node]]
    ELSE ms

\* Lines 487-488 without 490-491: node keeps its links to its children.
swap_take_over_linked(ms, node, successor) ==
    [ms EXCEPT !.left[successor] = ms.left[node],
               !.bf[successor] = ms.bf[node]]

\* Lines 487-491: the successor takes node's left child and balance factor.
swap_take_over(ms, node, successor) ==
    [ms EXCEPT !.left[successor] = ms.left[node],
               !.bf[successor] = ms.bf[node],
               !.right[node] = NULL,
               !.left[node] = NULL]

\* Lines 477-495, with the successor found.
swap_with_successor(ms, node, successor_ptr, swap_idx) ==
    IF ~Ok(ms) THEN [ms |-> ms, successor |-> NULL]
    ELSE [ms |-> swap_patch_trail(
                     swap_take_over(
                         swap_unlink_successor(ms, node, successor_ptr,
                                               Deref(ms, successor_ptr)),
                         node, Deref(ms, successor_ptr)),
                     NodeStack_get_mut(ms, swap_idx),
                     Deref(ms, successor_ptr)),
          successor |-> Deref(ms, successor_ptr)]

\* Lines 469-495: ms is the state after NodeStack_push(nodes, node->right).
swap_pushed(ms, node) ==
    IF ~Ok(ms) THEN [ms |-> ms, successor |-> NULL]
    ELSE swap_with_successor(successor_walk(ms, RightPtr(node)).ms, node,
                             successor_walk(ms, RightPtr(node)).successor_ptr,
                             NodeStack_len(ms) - 2)

\* Line 469, after the assert of line 468.
swap_checked(ms, node) ==
    IF ~Ok(ms) THEN [ms |-> ms, successor |-> NULL]
    ELSE swap_pushed(NodeStack_push(ms, ms.right[node]), node)

\* [ms, successor]: node (with two children) is unlinked and its inorder
\* successor carries its children and balance factor.
swap_for_delete(ms, node) ==
    swap_checked(
        IF ndebug THEN [ms EXCEPT !.flags = BitStack_push_clear(@)]
        ELSE Require(NodeStack_got([ms EXCEPT !.flags = BitStack_push_clear(@)],
                                   -1),
                     NodeStack_get(ms, -1) = node),
        node)

\* The record of a swap, made once the successor is stored in *node_ptr:
\* the node now at *node_ptr, the successor's fields, and the trail.
Swapped(ms, node_ptr, successor) ==
    Logged(ms, "swap", successor,
           [occupant |-> Deref(ms, node_ptr), left |-> ms.left[successor],
            right |-> ms.right[successor], bf |-> ms.bf[successor],
            trail |-> ms.nodes])

\* *node_ptr = swap_for_delete(nodes, is_left_flags, *node_ptr).
remove_node_swapped(swapped, node_ptr) ==
    IF Ok(swapped.ms)
    THEN Swapped(Store(swapped.ms, node_ptr, swapped.successor), node_ptr,
                 swapped.successor)
    ELSE swapped.ms

\* remove_node with lines 432-442 left out: node stays where it is.
remove_node_unlink_kept(ms, node_ptr, node) == ms

\* Lines 432-442: node leaves its place in the tree.
remove_node_unlink(ms, node_ptr, node) ==
    IF ms.left[node] # NULL /\ ms.right[node] # NULL
    THEN remove_node_swapped(swap_for_delete(ms, node), node_ptr)
    ELSE IF ms.left[node] # NULL
    THEN [Store(ms, node_ptr, ms.left[node]) EXCEPT !.left[node] = NULL]
    ELSE IF ms.right[node] # NULL
    THEN [Store(ms, node_ptr, ms.right[node]) EXCEPT !.right[node] = NULL]
    ELSE Store(ms, node_ptr, NULL)

\* Lines 449-451: pop the unlinked slot's node, then retrace.
remove_node_retrace(ms) ==
    IF ~Ok(ms) THEN ms
    ELSE update_balance_factors_and_rebalance(NodeStack_pop(ms).ms)

\* Lines 444-452, with node unlinked.
remove_node_unlinked(ms, node) ==
    IF ~Ok(ms) THEN ms
    ELSE assert_correct_balance_factors(
             remove_node_retrace(
                 Require([ms EXCEPT !.bf[node] = 0],
                         ms.left[node] = NULL /\ ms.right[node] = NULL)))

remove_node(ms, node_ptr) ==
    IF Deref(ms, node_ptr) = NULL THEN NullFault(ms)
    ELSE remove_node_unlinked(
             remove_node_unlink(ms, node_ptr, Deref(ms, node_ptr)),
             Deref(ms, node_ptr))

\* The descent of AvlTree_remove (lines 384-404); [ms, current_ptr, absent].
RECURSIVE remove_descend(_, _, _)
remove_descend(ms, key, current_ptr) ==
    IF Deref(ms, current_ptr) = NULL
    THEN [ms |-> ms, current_ptr |-> current_ptr, absent |-> FALSE]
    ELSE LET current  == Deref(ms, current_ptr)
             ordering == Compare(key, current)
         IN  IF ordering = 0
             THEN [ms |-> NodeStack_push(Compared(ms), current),
                   current_ptr |-> current_ptr, absent |-> FALSE]
             ELSE IF ordering < 0 /\ ms.left[current] # NULL
             THEN remove_descend(
                      [NodeStack_push(Compared(ms), current)
                          EXCEPT !.flags = BitStack_push_set(@)],
                      key, LeftPtr(current))
             ELSE IF ordering > 0 /\ ms.right[current] # NULL
             THEN remove_descend(
                      [NodeStack_push(Compared(ms), current)
                          EXCEPT !.flags = BitStack_push_clear(@)],
                      key, RightPtr(current))
             ELSE [ms |-> NodeStack_push(Compared(ms), current),
                   current_ptr |-> current_ptr, absent |-> TRUE]

\* The return of AvlTree_remove with neither trail dropped.
remove_drop_leaking(ms) == [NodeStack_drop(ms) EXCEPT !.log = ms.log]

\* BitStack_drop(&is_left_flags); NodeStack_drop(&nodes);
remove_drop(ms) == NodeStack_drop(BitStack_dropped(ms, ms.flags))

\* AvlTree_remove without --self->len.
remove_count_forgotten(ms) == ms

\* --self->len
remove_count(ms) == IF Ok(ms) THEN [ms EXCEPT !.len = @ - 1] ELSE ms

\* Lines 399-413 without the return of line 402: the node the descent
\* stopped at is removed although it does not compare equal.
remove_descended_ignoring_absent(d) ==
    IF ~Ok(d.ms)
    THEN [m |-> remove_drop(d.ms), to_remove |-> NULL]
    ELSE [m |-> remove_drop(remove_count(remove_node(d.ms, d.current_ptr))),
          to_remove |-> Deref(d.ms, d.current_ptr)]

\* Lines 399-413 with the tree's deleter called on the removed node.
remove_descended_deleting(d) ==
    IF ~Ok(d.ms) \/ d.absent
    THEN [m |-> remove_drop(d.ms), to_remove |-> NULL]
    ELSE [m |-> remove_drop(
                    [remove_count(remove_node(d.ms, d.current_ptr))
                        EXCEPT !.del[Deref(d.ms, d.current_ptr)] = @ + 1]),
          to_remove |-> Deref(d.ms, d.current_ptr)]

\* Lines 399-413 for the outcome d of the descent.
remove_descended(d) ==
    IF ~Ok(d.ms) \/ d.absent
    THEN [m |-> remove_drop(d.ms), to_remove |-> NULL]
    ELSE [m |-> remove_drop(remove_count(remove_node(d.ms, d.current_ptr))),
          to_remove |-> Deref(d.ms, d.current_ptr)]

\* [m, to_remove]: the tree afterwards and the returned node.
AvlTree_remove(m, key) ==
    remove_descended(
        remove_descend(NodeStack_with_capacity(m, max_height(m.len) + 1),
                       key, RootPtr))

(***************************************************************************)
(* Clear.                                                                  *)
(***************************************************************************)
\* self->deleter(node, arg): the caller's deleter frees the node, and a
\* node allocated again starts as {NULL, NULL, 0}.
deleter(m, node) ==
    Logged([m EXCEPT !.del[node] = @ + 1, !.left[node] = NULL,
                     !.right[node] = NULL, !.bf[node] = 0],
           "deleter", node, m.left[node])

\* while (current->left) current = rotate_right_unchecked(current, current->left)
RECURSIVE clear_flatten(_, _)
clear_flatten(m, current) ==
    IF m.left[current] = NULL THEN [m |-> m, top |-> current]
    ELSE LET r == rotate_right_unchecked(m, current, m.left[current])
         IN  clear_flatten(r.m, r.top)

\* The outer loop without the inner while: left subtrees are never visited.
RECURSIVE clear_loop_unflattened(_, _)
clear_loop_unflattened(m, current) ==
    IF current = NULL THEN m
    ELSE clear_loop_unflattened(deleter(m, current), m.right[current])

RECURSIVE clear_loop(_, _)
clear_loop(m, current) ==
    IF current = NULL THEN m
    ELSE LET f    == clear_flatten(m, current)
             next == f.m.right[f.top]
         IN  clear_loop(deleter(f.m, f.top), next)

AvlTree_clear(m) ==
    IF m.root = NULL THEN m
    ELSE [clear_loop(m, m.root) EXCEPT !.len = 0, !.root = NULL]

AvlTree_drop(m) == AvlTree_clear(m)

\* self->root = NULL; self->len = 0 (the callbacks are not state here).
AvlTree_new(m) == [m EXCEPT !.root = NULL, !.len = 0]

(***************************************************************************)
(* The Tree draft (src/src/tree.c over the TreeNode of src/src/node.c): a   *)
(* key-owning tree whose nodes are allocated by Tree_insert.  t is the      *)
(* record [root, size, left, right, parent, height, key, heap]: the Tree    *)
(* fields, the fields of every TreeNode, and the set of allocated nodes.    *)
(***************************************************************************)
\* Number of distinct keys the caller of the Tree draft uses.
TreeMaxKey == 4

TreeKeys == 1..TreeMaxKey

\* The heap has room for one TreeNode more than there are keys.
TreeNodes == 1..(TreeMaxKey + 1)

\* intptr_compare_wrapper(lhs, rhs).
TreeCompare(lhs, rhs) == IF lhs < rhs THEN -1 ELSE IF lhs > rhs THEN 1 ELSE 0

\* Tree_init: no root, size 0, and nothing allocated.
Tree_init ==
    [root |-> NULL, size |-> 0,
     left |-> [n \in TreeNodes |-> NULL], right |-> [n \in TreeNodes |-> NULL],
     parent |-> [n \in TreeNodes |-> NULL], height |-> [n \in TreeNodes |-> 0],
     key |-> [n \in TreeNodes |-> NULL], heap |-> {}]

\* malloc(sizeof(TreeNode)): a free block, NULL when there is none or when
\* the allocator fails (no_memory).
tree_malloc(t, no_memory) ==
    IF no_memory \/ TreeNodes \ t.heap = {} THEN NULL
    ELSE CHOOSE n \in TreeNodes \ t.heap : \A o \in TreeNodes \ t.heap : n <= o

\* free(node): the block leaves the heap and its contents are dead.
tree_free(t, node) ==
    [t EXCEPT !.heap = @ \ {node}, !.left[node] = NULL, !.right[node] = NULL,
              !.parent[node] = NULL, !.height[node] = 0, !.key[node] = NULL]

TreeNode_init(t, self, key) ==
    [t EXCEPT !.heap = @ \cup {self}, !.left[self] = NULL, !.right[self] = NULL,
              !.parent[self] = NULL, !.height[self] = 1, !.key[self] = key]

\* [t, ret]: the descent of to_insert below node.
RECURSIVE do_insert(_, _, _)
do_insert(t, node, to_insert) ==
    LET compare == TreeCompare(t.key[to_insert], t.key[node])
    IN  IF compare < 0
        THEN IF t.left[node] = NULL
             THEN [t |-> [t EXCEPT !.left[node] = to_insert,
                                   !.parent[to_insert] = node],
                   ret |-> "TREE_SUCCESS"]
             ELSE do_insert(t, t.left[node], to_insert)
        ELSE IF compare > 0
        THEN IF t.right[node] = NULL
             THEN [t |-> [t EXCEPT !.right[node] = to_insert,
                                   !.parent[to_insert] = node],
                   ret |-> "TREE_SUCCESS"]
             ELSE do_insert(t, t.right[node], to_insert)
        ELSE [t |-> t, ret |-> "TREE_DUPLICATE_KEY"]

\* Lines 112-120 with ++self->size done whatever do_insert returned.
tree_insert_done_counting(inserted, to_insert) ==
    IF inserted.ret # "TREE_SUCCESS"
    THEN [t |-> [tree_free(inserted.t, to_insert) EXCEPT !.size = @ + 1],
          ret |-> inserted.ret]
    ELSE [t |-> [inserted.t EXCEPT !.size = @ + 1], ret |-> "TREE_SUCCESS"]

\* Lines 112-120 for the outcome of do_insert.
tree_insert_done(inserted, to_insert) ==
    IF inserted.ret # "TREE_SUCCESS"
    THEN [t |-> tree_free(inserted.t, to_insert), ret |-> inserted.ret]
    ELSE [t |-> [inserted.t EXCEPT !.size = @ + 1], ret |-> "TREE_SUCCESS"]

\* Lines 96-120 for the allocated and initialised node.
tree_insert_node(t, to_insert) ==
    IF t.root = NULL
    THEN [t |-> [t EXCEPT !.root = to_insert, !.size = @ + 1],
          ret |-> "TREE_SUCCESS"]
    ELSE tree_insert_done(do_insert(t, t.root, to_insert), to_insert)

\* [t, ret].
Tree_insert(t, key, no_memory) ==
    IF tree_malloc(t, no_memory) = NULL
    THEN [t |-> t, ret |-> "TREE_NO_MEMORY"]
    ELSE tree_insert_node(TreeNode_init(t, tree_malloc(t, no_memory), key),
                          tree_malloc(t, no_memory))

\* [t, ret]: the body of Tree_erase is commented out.
Tree_erase(t, key) == [t |-> t, ret |-> "TREE_NOT_IMPLEMENTED"]

Tree_size(t) == t.size

RECURSIVE TreeNode_destroy(_, _)

\* node.c:52-55: the left subtree is destroyed and unlinked.
destroy_left(t, self) ==
    IF t.left[self] # NULL
    THEN [TreeNode_destroy(t, t.left[self]) EXCEPT !.left[self] = NULL]
    ELSE t

\* node.c:57-60: the right subtree is destroyed and unlinked.
destroy_right(t, self) ==
    IF t.right[self] # NULL
    THEN [TreeNode_destroy(t, t.right[self]) EXCEPT !.right[self] = NULL]
    ELSE t

\* The fields of self and of every node below it are reset; no block is
\* handed back to the allocator.
TreeNode_destroy(t, self) ==
    [destroy_right(destroy_left(t, self), self) EXCEPT
        !.parent[self] = NULL, !.key[self] = NULL, !.height[self] = 1]

\* TreeNode_destroy(self->root); free(self->root).
Tree_clear(t) ==
    IF t.root # NULL
    THEN [tree_free(TreeNode_destroy(t, t.root), t.root) EXCEPT
             !.root = NULL, !.size = 0]
    ELSE [t EXCEPT !.size = 0]

Tree_destroy(t) == Tree_clear(t)

\* The keys handed to the callback, first to last, with the callback
\* invoked before the left subtree is visited.
RECURSIVE do_traverse_callback_first(_, _)
do_traverse_callback_first(t, self) ==
    <<t.key[self]>>
    \o (IF t.left[self] # NULL
        THEN do_traverse_callback_first(t, t.left[self]) ELSE << >>)
    \o (IF t.right[self] # NULL
        THEN do_traverse_callback_first(t, t.right[self]) ELSE << >>)

\* The keys handed to the callback, first to last.
RECURSIVE do_traverse(_, _)
do_traverse(t, self) ==
    (IF t.left[self] # NULL THEN do_traverse(t, t.left[self]) ELSE << >>)
    \o <<t.key[self]>>
    \o (IF t.right[self] # NULL THEN do_traverse(t, t.right[self]) ELSE << >>)

Tree_traverse(t) == IF t.root = NULL THEN << >> ELSE do_traverse(t, t.root)

(***************************************************************************)
(* The state machine: one action per public function of map.c.             *)
(***************************************************************************)
\* The nodes reachable from n through left and right edges.
RECURSIVE NodesBelow(_, _)
NodesBelow(m, n) ==
    IF n = NULL THEN {}
    ELSE {n} \cup NodesBelow(m, m.left[n]) \cup NodesBelow(m, m.right[n])

InTree == NodesBelow(Machine, root)

\* The state a call starts from: no deleter call made yet.
Start == [Machine EXCEPT !.del = [n \in Nodes |-> 0], !.fac = 0,
                         !.cmp = [calls |-> 0, late |-> 0], !.log = << >>]

Call(op, key, node, ret, inserted) ==
    [op |-> op, key |-> key, node |-> node, ret |-> ret, inserted |-> inserted]

\* The structure of the tree AvlTree_new makes.
NoShape == [root |-> NULL, len |-> 0, left |-> [n \in Nodes |-> NULL],
            right |-> [n \in Nodes |-> NULL], bf |-> [n \in Nodes |-> 0]]

Becomes(m, call, keys) ==
    /\ ref' = keys
    /\ before' = IF call.op = "insert" THEN Shape(Machine)
                 ELSE IF /\ call.op = "remove" /\ last.op = "insert"
                         /\ last.ret = NULL /\ call.key = last.key
                 THEN before
                 ELSE NoShape
    /\ root' = m.root
    /\ len' = m.len
    /\ left' = m.left
    /\ right' = m.right
    /\ bf' = m.bf
    /\ del' = m.del
    /\ fac' = m.fac
    /\ cmp' = m.cmp
    /\ log' = m.log
    /\ fault' = m.fault
    /\ last' = call
    /\ UNCHANGED <<ndebug, stack, tree>>

\* Words in the array a caller hands to BitStack_from_adopted_slice.
SliceWords == 1

\* A call of a BitStack function: its name, index argument and result.
BitCall(op, index, ret) == [op |-> op, index |-> index, ret |-> ret]

\* A call of the Tree draft: the function, its key, the code it returned,
\* the keys its callback was handed, and the size it stored (-1: none).
TreeCall(op, key, ret, out, size) ==
    [op |-> op, key |-> key, ret |-> ret, out |-> out, size |-> size]

\* AvlTree_new, on either build, and Tree_init.
Init ==
    /\ root = NULL
    /\ len = 0
    /\ left = [n \in Nodes |-> NULL]
    /\ right = [n \in Nodes |-> NULL]
    /\ bf = [n \in Nodes |-> 0]
    /\ del = [n \in Nodes |-> 0]
    /\ fac = 0
    /\ cmp = [calls |-> 0, late |-> 0]
    /\ log = << >>
    /\ fault = "none"
    /\ ndebug \in BOOLEAN
    /\ last = Call("new", NULL, NULL, NULL, -1)
    /\ ref = {}
    /\ before = NoShape
    /\ stack = [self |-> BitStack_from_adopted_slice(SliceWords),
                pushed |-> << >>, popping |-> FALSE,
                call |-> BitCall("from_adopted_slice", -1, -1)]
    /\ tree = [t |-> Tree_init, keys |-> {},
               call |-> TreeCall("init", NULL, "TREE_SUCCESS", << >>, -1)]

\* The tree may be called: no call aborted, and it was not dropped.
Initialized == fault = "none" /\ last.op # "drop"

\* The caller inserts a node it owns (one that is not in the tree).
Insert(node) ==
    /\ Initialized
    /\ node \notin InTree
    /\ LET r == AvlTree_insert(Start, node)
       IN  Becomes(r.m, Call("insert", KeyOf(node), node, r.previous, -1),
                   ref \cup {KeyOf(node)})

\* The factory, when called, returns a node the caller owns with this key.
GetOrInsert(key) ==
    /\ Initialized
    /\ LET present == find_node_or_parent(Machine, key).is_node = 1
           fresh == {n \in Nodes : KeyOf(n) = key /\ n \notin InTree}
       IN  \E made \in (IF fresh = {} THEN {NULL} ELSE fresh) :
               LET r == AvlTree_get_or_insert(Start, key, made)
               IN  Becomes(r.m, Call("get_or_insert", key, made,
                                     r.equal_or_inserted, r.inserted),
                           ref \cup {key})

Remove(key) ==
    /\ Initialized
    /\ LET r == AvlTree_remove(Start, key)
       IN  Becomes(r.m, Call("remove", key, NULL,
                             IF Ok(r.m) THEN r.to_remove ELSE NULL, -1),
                   ref \ {key})

\* A lookup that empties the tree it searched.
Get_clearing(key) ==
    /\ Initialized
    /\ Becomes(AvlTree_clear(Start),
               Call("get", key, NULL, AvlTree_get(Start, key), -1), ref)

Get(key) ==
    /\ Initialized
    /\ Becomes(Start, Call("get", key, NULL, AvlTree_get(Start, key), -1), ref)

GetMut(key) ==
    /\ Initialized
    /\ Becomes(Start,
               Call("get_mut", key, NULL, AvlTree_get_mut(Start, key), -1), ref)

Clear ==
    /\ Initialized
    /\ Becomes(AvlTree_clear(Start), Call("clear", NULL, NULL, NULL, -1), {})

Drop ==
    /\ Initialized
    /\ Becomes(AvlTree_drop(Start), Call("drop", NULL, NULL, NULL, -1), {})

\* AvlTree_new on the storage of a dropped tree.
New ==
    /\ fault = "none"
    /\ last.op = "drop"
    /\ Becomes(AvlTree_new(Start), Call("new", NULL, NULL, NULL, -1), {})

Next ==
    \/ \E node \in OwnNodes : Insert(node)
    \/ \E key \in Keys : GetOrInsert(key)
    \/ \E key \in Keys : Remove(key)
    \/ \E key \in Keys : Get(key)
    \/ \E key \in Keys : GetMut(key)
    \/ Clear
    \/ Drop
    \/ New

Spec == Init /\ [][Next]_vars

(***************************************************************************)
(* The state machine of the Tree draft: one action per function of tree.c  *)
(* that its test calls on an initialised Tree.  tree.keys is the set of    *)
(* keys whose Tree_insert returned TREE_SUCCESS.                           *)
(***************************************************************************)
avl_vars == <<root, len, left, right, bf, del, fac, cmp, log, fault, ndebug,
              last, ref, before>>

TreeInsert(key, no_memory) ==
    /\ LET r == Tree_insert(tree.t, key, no_memory)
       IN  tree' = [t |-> r.t,
                    keys |-> IF r.ret = "TREE_SUCCESS"
                             THEN tree.keys \cup {key} ELSE tree.keys,
                    call |-> TreeCall("insert", key, r.ret, << >>, -1)]
    /\ UNCHANGED <<avl_vars, stack>>

TreeErase(key) ==
    /\ LET r == Tree_erase(tree.t, key)
       IN  tree' = [t |-> r.t,
                    keys |-> IF r.ret = "TREE_SUCCESS"
                             THEN tree.keys \ {key} ELSE tree.keys,
                    call |-> TreeCall("erase", key, r.ret, << >>, -1)]
    /\ UNCHANGED <<avl_vars, stack>>

TreeTraverse ==
    /\ tree' = [tree EXCEPT !.call = TreeCall("traverse", NULL, "TREE_SUCCESS",
                                              Tree_traverse(tree.t), -1)]
    /\ UNCHANGED <<avl_vars, stack>>

TreeSize ==
    /\ tree' = [tree EXCEPT !.call = TreeCall("size", NULL, "TREE_SUCCESS",
                                              << >>, Tree_size(tree.t))]
    /\ UNCHANGED <<avl_vars, stack>>

TreeClear ==
    /\ tree' = [t |-> Tree_clear(tree.t), keys |-> {},
                call |-> TreeCall("clear", NULL, "TREE_SUCCESS", << >>, -1)]
    /\ UNCHANGED <<avl_vars, stack>>

\* Tree_destroy; a Tree_init on the same storage afterwards would store
\* the root and size that Tree_clear left.
TreeDestroy ==
    /\ tree' = [t |-> Tree_destroy(tree.t), keys |-> {},
                call |-> TreeCall("destroy", NULL, "TREE_SUCCESS", << >>, -1)]
    /\ UNCHANGED <<avl_vars, stack>>

TreeNext ==
    \/ \E key \in TreeKeys, no_memory \in BOOLEAN : TreeInsert(key, no_memory)
    \/ \E key \in TreeKeys : TreeErase(key)
    \/ TreeTraverse
    \/ TreeSize
    \/ TreeClear
    \/ TreeDestroy

TreeSpec == Init /\ [][TreeNext]_vars

(***************************************************************************)
(* The state machine of a BitStack used on its own: one action per         *)
(* function of bit_stack.c that reads or writes bits.  stack.pushed is the *)
(* caller's account of the bits pushed and not popped, oldest first, and   *)
(* stack.popping says that the caller has begun to pop.                    *)
(***************************************************************************)
\* The caller pushes at most this many bits.
MaxBits == 66

\* The caller pushes first and pops afterwards, as a descent and its retrace
\* do, and its bits repeat with period two.
Pushes(bit) ==
    /\ Len(stack.pushed) < MaxBits
    /\ ~stack.popping
    /\ IF Len(stack.pushed) < 2 THEN TRUE
       ELSE bit = stack.pushed[Len(stack.pushed) - 1]

\* What a read of the stored bit can return: (word & mask) != 0 is 0 or 1,
\* and either one when the word was never written.
ReadAs(bit) == IF bit = Indeterminate THEN {0, 1} ELSE {bit}

BitPushSet ==
    /\ Pushes(1)
    /\ stack' = [self |-> BitStack_push_set(stack.self),
                 pushed |-> Append(stack.pushed, 1), popping |-> FALSE,
                 call |-> BitCall("push_set", -1,
                                  BitStack_push_set(stack.self).len)]
    /\ UNCHANGED <<avl_vars, tree>>

BitPushClear ==
    /\ Pushes(0)
    /\ stack' = [self |-> BitStack_push_clear(stack.self),
                 pushed |-> Append(stack.pushed, 0), popping |-> FALSE,
                 call |-> BitCall("push_clear", -1,
                                  BitStack_push_clear(stack.self).len)]
    /\ UNCHANGED <<avl_vars, tree>>

BitPop ==
    /\ \E ret \in ReadAs(BitStack_pop(stack.self).bit) :
           stack' = [self |-> BitStack_pop(stack.self).bits,
                     pushed |-> IF stack.pushed = << >> THEN << >>
                                ELSE SubSeq(stack.pushed, 1,
                                            Len(stack.pushed) - 1),
                     popping |-> TRUE,
                     call |-> BitCall("pop", -1, ret)]
    /\ UNCHANGED <<avl_vars, tree>>

BitGet(index) ==
    /\ \E ret \in ReadAs(BitStack_get(stack.self, index)) :
           stack' = [stack EXCEPT !.call = BitCall("get", index, ret)]
    /\ UNCHANGED <<avl_vars, tree>>

BitNext ==
    \/ BitPushSet
    \/ BitPushClear
    \/ BitPop
    \/ \E index \in {0, 1, BITS_PER_WORD} : BitGet(index)

BitSpec == Init /\ [][BitNext]_vars

(***************************************************************************)
(* A caller that fills the tree with one node for each key of              *)
(* 1..MaxKey + 1 and then removes one key: the smallest trees in which a   *)
(* removal makes a double rotation whose bottom node leans.                 *)
(***************************************************************************)
\* The caller has only inserted so far.
Filling == last.op \in {"new", "insert"}

FillInsert(node) == Filling /\ Insert(node)

FillRemove(key) == Filling /\ len = MaxKey + 1 /\ Remove(key)

FillNext ==
    \/ \E node \in DeepNodes : FillInsert(node)
    \/ \E key \in 1..(MaxKey + 1) : FillRemove(key)

FillSpec == Init /\ [][FillNext]_vars

(***************************************************************************)
(* Properties.                                                             *)
(***************************************************************************)
\* The tree and node fields after the step.
MachineNext == [root |-> root', len |-> len', left |-> left', right |-> right',
                bf |-> bf', del |-> del', fac |-> fac', cmp |-> cmp',
                log |-> log', fault |-> fault']

\* The last call returned to its caller.
Returned == fault = "none"

\* The step is a call of op made on a usable tree.
Calls(op) == Initialized /\ last' # last /\ last'.op = op

\* C1: whenever an operation has returned, every reachable node's
\* balance_factor equals height(right) - height(left) and is -1, 0 or +1.
C1_BalanceFactors ==
    Returned =>
        \A n \in InTree :
            /\ bf[n] = Height(Machine, right[n]) - Height(Machine, left[n])
            /\ bf[n] \in {-1, 0, 1}

\* A removal returned from a tree that still has four nodes, some of them
\* with a nonzero balance factor.
C1_Witness ==
    /\ Returned
    /\ last.op = "remove"
    /\ last.ret # NULL
    /\ len >= 4
    /\ \E n \in InTree : bf[n] = 1
    /\ \E n \in InTree : bf[n] = -1

\* C2: whenever an operation has returned, every key in a node's left
\* subtree compares less than the node and every key in its right subtree
\* compares greater.
C2_SearchOrder ==
    Returned =>
        \A n \in InTree :
            /\ \A x \in NodesBelow(Machine, left[n]) : Compare(KeyOf(x), n) < 0
            /\ \A x \in NodesBelow(Machine, right[n]) : Compare(KeyOf(x), n) > 0

\* A removal returned from a tree of height three.
C2_Witness ==
    /\ Returned
    /\ last.op = "remove"
    /\ last.ret # NULL
    /\ Height(Machine, root) >= 3

\* C3: after every returned call, len is the number of nodes reachable from
\* the root.
C3_LenCountsNodes == Returned => len = Cardinality(InTree)

\* A removal returned a node and left at least two nodes in the tree.
C3_Witness ==
    /\ Returned
    /\ last.op = "remove"
    /\ last.ret # NULL
    /\ len >= 2

\* C4: after every returned call, AvlTree_get(k) is a node comparing equal
\* to k exactly when k is in the reference set, and NULL for any other key.
C4_RefinesKeySet ==
    Returned =>
        \A k \in Keys :
            IF k \in ref
            THEN AvlTree_get(Machine, k) # NULL
                 /\ Compare(k, AvlTree_get(Machine, k)) = 0
            ELSE AvlTree_get(Machine, k) = NULL

\* A removal returned, and some keys are in the reference set and some
\* are not.
C4_Witness ==
    /\ Returned
    /\ last.op = "remove"
    /\ last.ret # NULL
    /\ Cardinality(ref) >= 3
    /\ ref # Keys

\* C5: AvlTree_remove of a present key returns the node that compares
\* equal, lowers len by one, makes the key unreachable and keeps every
\* other reachable key reachable.
C5_RemovePresent ==
    [][(Calls("remove") /\ AvlTree_get(Machine, last'.key) # NULL) =>
          /\ fault' = "none"
          /\ last'.ret = AvlTree_get(Machine, last'.key)
          /\ len' = len - 1
          /\ AvlTree_get(MachineNext, last'.key) = NULL
          /\ \A k \in Keys \ {last'.key} :
                 AvlTree_get(Machine, k) # NULL
                     => AvlTree_get(MachineNext, k) = AvlTree_get(Machine, k)
      ]_vars

\* C6: on an empty tree AvlTree_remove, AvlTree_get and AvlTree_clear are
\* safe: they return (NULL), fault on nothing and leave root NULL and len 0.
C6_EmptyTreeSafe ==
    [][(root = NULL /\ len = 0
        /\ (Calls("remove") \/ Calls("get") \/ Calls("clear"))) =>
          /\ fault' = "none"
          /\ last'.ret = NULL
          /\ root' = NULL
          /\ len' = 0
      ]_vars

\* C7: AvlTree_remove of an absent key on a tree with at least one node
\* returns NULL and changes neither root, len nor any node's left, right or
\* balance_factor.
C7_RemoveAbsentNoOp ==
    [][(Calls("remove") /\ root # NULL
        /\ AvlTree_get(Machine, last'.key) = NULL) =>
          /\ fault' = "none"
          /\ last'.ret = NULL
          /\ root' = root
          /\ len' = len
          /\ left' = left
          /\ right' = right
          /\ bf' = bf
      ]_vars

\* A removal returned NULL on a tree of at least three nodes.
C7_Witness ==
    /\ Returned
    /\ last.op = "remove"
    /\ last.ret = NULL
    /\ len >= 3
    /\ AvlTree_get(Machine, last.key) = NULL

\* C8: AvlTree_insert of a node with an absent key returns NULL, raises len
\* by one, makes AvlTree_get find the node and keeps every present key
\* reachable.
C8_InsertAbsent ==
    [][(Calls("insert") /\ AvlTree_get(Machine, last'.key) = NULL) =>
          /\ fault' = "none"
          /\ last'.ret = NULL
          /\ len' = len + 1
          /\ AvlTree_get(MachineNext, last'.key) = last'.node
          /\ \A k \in Keys :
                 AvlTree_get(Machine, k) # NULL
                     => AvlTree_get(MachineNext, k) = AvlTree_get(Machine, k)
      ]_vars

\* An insert of an absent key returned NULL and the tree now has at least
\* four nodes, the new one among them.
C8_Witness ==
    /\ Returned
    /\ last.op = "insert"
    /\ last.ret = NULL
    /\ len >= 4
    /\ AvlTree_get(Machine, last.key) = last.node

\* x with the displaced node replaced by the supplied one.
Replaced(x, previous, node) == IF x = previous THEN node ELSE x

\* C9: AvlTree_insert of a node whose key is present returns the displaced
\* node and puts the supplied node at its position (same parent edge, same
\* children, same balance_factor); len and every other node's links and
\* balance_factor are unchanged, and AvlTree_get then yields the new node.
C9_InsertDuplicate ==
    [][(Calls("insert") /\ AvlTree_get(Machine, last'.key) # NULL) =>
          LET previous == AvlTree_get(Machine, last'.key)
              node == last'.node
          IN  /\ fault' = "none"
              /\ last'.ret = previous
              /\ len' = len
              /\ root' = Replaced(root, previous, node)
              /\ left'[node] = left[previous]
              /\ right'[node] = right[previous]
              /\ bf'[node] = bf[previous]
              /\ \A n \in Nodes \ {previous, node} :
                     /\ left'[n] = Replaced(left[n], previous, node)
                     /\ right'[n] = Replaced(right[n], previous, node)
                     /\ bf'[n] = bf[n]
              /\ AvlTree_get(MachineNext, last'.key) = node
      ]_vars

\* A duplicate insert displaced a node that had a child and a nonzero
\* balance factor.
C9_Witness ==
    /\ Returned
    /\ last.op = "insert"
    /\ last.ret # NULL
    /\ last.ret # last.node
    /\ bf[last.node] # 0
    /\ AvlTree_get(Machine, last.key) = last.node

\* C10 as claimed: the tree's deleter has been invoked exactly once on a
\* node that left the tree through AvlTree_remove.
C10_RemoveInvokesDeleter ==
    (Returned /\ last.op = "remove" /\ last.ret # NULL) => del[last.ret] = 1

\* C10 as amended: AvlTree_remove invokes the deleter on no node; the node
\* that left the tree is handed to the caller, out of the tree.
C10_RemoveHandsNodeOver ==
    (Returned /\ last.op = "remove") =>
        /\ \A n \in Nodes : del[n] = 0
        /\ last.ret # NULL => last.ret \notin InTree

\* A removal returned a node.
C10_Witness ==
    /\ Returned
    /\ last.op = "remove"
    /\ last.ret # NULL
    /\ len >= 1

\* C11 as claimed: whichever way the tree is emptied (AvlTree_clear,
\* AvlTree_drop, or the removal of its last key), the deleter has been
\* invoked exactly once on each node the emptying call took out.
C11_EvictionInvokesDeleter ==
    [][((Calls("clear") \/ Calls("drop") \/ Calls("remove"))
        /\ fault' = "none" /\ root # NULL /\ root' = NULL) =>
          \A n \in InTree : del'[n] = 1
      ]_vars

\* C11 as amended: AvlTree_clear and AvlTree_drop invoke the deleter exactly
\* once on each node that was reachable and on no other node (so zero times
\* on an empty tree), and leave root NULL and len 0.
C11_ClearDeletesEachOnce ==
    [][(Calls("clear") \/ Calls("drop")) =>
          /\ fault' = "none"
          /\ root' = NULL
          /\ len' = 0
          /\ \A n \in Nodes : del'[n] = IF n \in InTree THEN 1 ELSE 0
      ]_vars

\* A clear or drop returned after the deleter ran on four nodes or more,
\* among them a node that had a left child.
C11_Witness ==
    /\ Returned
    /\ last.op \in {"clear", "drop"}
    /\ root = NULL
    /\ Cardinality({n \in Nodes : del[n] = 1}) >= 4

\* C12: AvlTree_get_or_insert calls the factory only for an absent key and
\* then exactly once.  Present key: the existing node is returned, *inserted
\* is 0, the factory is not called and the tree is unchanged.  Absent key:
\* one factory call, its node is linked and returned, *inserted is 1 and len
\* grows by one.
C12_FactoryOnlyWhenAbsent ==
    [][Calls("get_or_insert") =>
          IF AvlTree_get(Machine, last'.key) # NULL
          THEN /\ fault' = "none"
               /\ fac' = 0
               /\ last'.ret = AvlTree_get(Machine, last'.key)
               /\ last'.inserted = 0
               /\ root' = root /\ len' = len
               /\ left' = left /\ right' = right /\ bf' = bf
          ELSE /\ fault' = "none"
               /\ fac' = 1
               /\ last'.ret = last'.node
               /\ last'.inserted = 1
               /\ len' = len + 1
               /\ AvlTree_get(MachineNext, last'.key) = last'.node
      ]_vars

\* A get_or_insert found key 1 present while the caller's factory had a
\* second node for that key at hand, in a tree of three nodes or more.
C12_Witness ==
    /\ Returned
    /\ last.op = "get_or_insert"
    /\ last.inserted = 0
    /\ last.node # NULL
    /\ last.ret # last.node
    /\ len >= 3

\* The step removes the key that the call before it inserted as a new key.
RemovesJustInserted ==
    /\ Calls("remove")
    /\ last.op = "insert"
    /\ last.ret = NULL
    /\ last'.key = last.key

\* The insert before this state rotated nothing: every node of the tree it
\* was called on kept its children, but for the edge that took the new leaf.
InsertedWithoutRotation ==
    /\ before.root \in {root, NULL}
    /\ \A n \in NodesBelow(before, before.root) :
           /\ left[n] \in {before.left[n], last.node}
           /\ right[n] \in {before.right[n], last.node}

height_bound_values == <<2, 3, 3, 4, 4, 5, 5, 5, 5, 5>>

height_bound(size) == height_bound_values[size + 1]

\* C14: after any sequence of inserts and removes that returned, the height
\* of the tree (nodes on the longest path from the root) is at most
\* ceil(1.44 * log2(size + 2)).
C14_HeightBound == Returned => Height(Machine, root) <= height_bound(len)

\* A tree of six nodes, the last of them inserted with the greatest key,
\* that has height three.
C14_Witness ==
    /\ Returned
    /\ last.op = "insert"
    /\ last.ret = NULL
    /\ last.key = MaxKey
    /\ len = 6
    /\ Height(Machine, root) = 3

\* The nodes reached from the root in at most k steps along left and right
\* edges (defined on any node graph, cyclic or not).
RECURSIVE ReachedWithin(_)
ReachedWithin(k) ==
    IF k = 0 THEN {root} \ {NULL}
    ELSE LET r == ReachedWithin(k - 1)
         IN  (r \cup {left[n] : n \in r} \cup {right[n] : n \in r}) \ {NULL}

Reached == ReachedWithin(NumNodes)

\* The left (d = 1) and right (d = 0) edges of reached nodes that point at n.
EdgesTo(n) ==
    {e \in Reached \X {0, 1} :
        (IF e[2] = 1 THEN left[e[1]] ELSE right[e[1]]) = n}

\* C15: in every quiescent state the node graph is a tree (the root has no
\* edge pointing at it and every other reached node exactly one, so that
\* there is no sharing and no cycle), and a node handed back by
\* AvlTree_remove or displaced by AvlTree_insert is not reached from root.
C15_NodeGraphIsTree ==
    Returned =>
        /\ \A n \in Reached :
               Cardinality(EdgesTo(n)) = IF n = root THEN 0 ELSE 1
        /\ last.op \in {"remove", "insert"} /\ last.ret # NULL
               => last.ret \notin Reached

\* A removal returned a node whose key lies between keys that stay in the
\* tree, which keeps four nodes or more.
C15_Witness ==
    /\ Returned
    /\ last.op = "remove"
    /\ last.ret # NULL
    /\ Cardinality(Reached) >= 4
    /\ \E n \in Reached : KeyOf(n) < last.key
    /\ \E n \in Reached : KeyOf(n) > last.key

\* C16: AvlTree_get and AvlTree_get_mut change nothing: for a present or an
\* absent key they leave root, len and every node's left, right and
\* balance_factor as they were, and the same get repeated on the tree they
\* leave returns the same node.
C16_GetIsPure ==
    [][(Calls("get") \/ Calls("get_mut")) =>
          /\ fault' = "none"
          /\ root' = root /\ len' = len
          /\ left' = left /\ right' = right /\ bf' = bf
          /\ AvlTree_get(MachineNext, last'.key) = last'.ret
          /\ AvlTree_get_mut(MachineNext, last'.key) = last'.ret
      ]_vars

\* AvlTree_get found a key below the root of a tree of four nodes or more.
C16_Witness ==
    /\ Returned
    /\ last.op = "get"
    /\ last.ret # NULL
    /\ last.ret # root
    /\ len >= 4

\* C17: within an AvlTree_insert, AvlTree_get_or_insert or AvlTree_remove
\* call, whether it returns or aborts, no comparator invocation comes after
\* a write to the tree: each one sees root, len and every node's links and
\* balance factor exactly as they were when the call began.
C17_ComparatorBeforeWrites ==
    last.op \in {"insert", "get_or_insert", "remove"} => cmp.late = 0

\* A removal that compared the key with three nodes and then took a node
\* out of the tree.
C17_Witness ==
    /\ Returned
    /\ last.op = "remove"
    /\ last.ret # NULL
    /\ cmp.calls >= 3
    /\ cmp.late = 0


(***************************************************************************)
(* Properties of the Tree draft.                                           *)
(***************************************************************************)
\* The step is a call of the Tree function op.
TreeCalls(op) == tree' # tree /\ tree'.call.op = op

\* The keys of the sequence out are strictly ascending under the comparator.
Ascending(out) ==
    \A i \in 1..(Len(out) - 1) : TreeCompare(out[i], out[i + 1]) < 0

\* C18 (as stated): in the Tree draft, Tree_erase of a key that is present
\* returns TREE_SUCCESS and removes exactly that entry, so that a following
\* traversal lists the remaining keys in order, and Tree_erase of a key that
\* is not (or no longer) present returns TREE_NO_SUCH_KEY.
C18_EraseRemovesKey ==
    [][TreeCalls("erase") =>
        IF tree'.call.key \in tree.keys
        THEN /\ tree'.call.ret = "TREE_SUCCESS"
             /\ Ascending(Tree_traverse(tree'.t))
             /\ {Tree_traverse(tree'.t)[i] :
                    i \in 1..Len(Tree_traverse(tree'.t))}
                = tree.keys \ {tree'.call.key}
        ELSE tree'.call.ret = "TREE_NO_SUCH_KEY"]_vars

\* C19: Tree_traverse performs an in-order iteration: after any sequence of
\* Tree_insert calls the callback is invoked exactly once for each key whose
\* insert succeeded, in strictly ascending key order under the comparator,
\* and not at all on an empty tree.
C19_TraverseInOrder ==
    tree.call.op = "traverse" =>
        /\ Len(tree.call.out) = Cardinality(tree.keys)
        /\ {tree.call.out[i] : i \in 1..Len(tree.call.out)} = tree.keys
        /\ Ascending(tree.call.out)
        /\ tree.t.root = NULL => tree.call.out = << >>

\* C19 witness: a traversal of a tree of at least three keys whose root has
\* both a left and a right subtree has called the callback for each of them.
C19_Witness ==
    /\ tree.call.op = "traverse"
    /\ Len(tree.call.out) >= 3
    /\ tree.t.root # NULL
    /\ tree.t.left[tree.t.root] # NULL
    /\ tree.t.right[tree.t.root] # NULL

\* C20: Tree_insert changes the tree only on success: a call that returns
\* TREE_SUCCESS increases the size Tree_size reports by exactly one
\* (starting from 0 after Tree_init) and adds the key, while a call that
\* returns TREE_DUPLICATE_KEY or TREE_NO_MEMORY leaves every node, every
\* link, the set of allocated nodes and the size as they were.
C20_InsertChangesOnlyOnSuccess ==
    [][/\ Tree_size(Tree_init) = 0
       /\ TreeCalls("insert") =>
            /\ tree'.call.ret \in {"TREE_SUCCESS", "TREE_DUPLICATE_KEY",
                                   "TREE_NO_MEMORY"}
            /\ tree'.call.ret = "TREE_SUCCESS" =>
                    /\ Tree_size(tree'.t) = Tree_size(tree.t) + 1
                    /\ tree'.call.key \notin tree.keys
                    /\ Ascending(Tree_traverse(tree'.t))
                    /\ Len(Tree_traverse(tree'.t)) = Tree_size(tree'.t)
            /\ tree'.call.ret = "TREE_DUPLICATE_KEY" =>
                    tree'.call.key \in tree.keys
            /\ tree'.call.ret # "TREE_SUCCESS" => tree'.t = tree.t]_vars

\* C20 witness: an insert of a key that a tree of at least three keys
\* already holds has returned TREE_DUPLICATE_KEY.
C20_Witness ==
    /\ tree.call.op = "insert"
    /\ tree.call.ret = "TREE_DUPLICATE_KEY"
    /\ tree.t.size >= 3

\* C32 (as stated): in the Tree draft, Tree_clear and Tree_destroy release
\* every node that Tree_insert allocated and that is still in the tree (no
\* block stays allocated afterwards, and none is freed twice), and leave
\* root NULL and size 0.
C32_ClearReleasesNodes ==
    [][(TreeCalls("clear") \/ TreeCalls("destroy")) =>
          /\ tree'.t.heap = {}
          /\ tree'.t.root = NULL
          /\ tree'.t.size = 0]_vars

\* The number of nodes on the longest path from node n of the Tree draft
\* down to a leaf (0 for NULL).
RECURSIVE TreeHeight(_, _)
TreeHeight(t, n) ==
    IF n = NULL THEN 0
    ELSE LET l == TreeHeight(t, t.left[n])
             r == TreeHeight(t, t.right[n])
         IN  1 + IF l < r THEN r ELSE l

\* C33 (as stated): in the Tree draft, after any sequence of successful
\* Tree_insert calls, the heights of the left and right subtrees of every
\* node differ by at most one.
C33_TreeDraftBalanced ==
    \A n \in NodesBelow(tree.t, tree.t.root) :
        TreeHeight(tree.t, tree.t.right[n]) - TreeHeight(tree.t, tree.t.left[n])
          \in {-1, 0, 1}

(***************************************************************************)
(* Properties of the work inside one call.                                 *)
(***************************************************************************)
\* The nodes the search for key visits in the tree m, from n downwards.
RECURSIVE DescentPath(_, _, _)
DescentPath(m, n, key) ==
    IF n = NULL THEN << >>
    ELSE IF key < KeyOf(n) THEN <<n>> \o DescentPath(m, m.left[n], key)
    ELSE IF KeyOf(n) < key THEN <<n>> \o DescentPath(m, m.right[n], key)
    ELSE <<n>>

\* The positions on the descent path at which the balance factor is nonzero.
Leaning(m, path) == {i \in 1..Len(path) : m.bf[path[i]] # 0}

\* The position of the rotate root on the path: the deepest leaning node,
\* 0 when no node on the path leans.
RotateRootAt(m, path) ==
    IF Leaning(m, path) = {} THEN 0
    ELSE CHOOSE i \in Leaning(m, path) : \A j \in Leaning(m, path) : j <= i

IsRotation(e) == e.ev \in {"rotate_left", "rotate_right"}

\* The step is an insertion that returned and added a node to the tree.
AddsNode ==
    /\ Initialized
    /\ last' # last
    /\ fault' = "none"
    /\ \/ last'.op = "insert" /\ last'.ret = NULL
       \/ last'.op = "get_or_insert" /\ last'.inserted = 1

\* The rotation events rots are one rotation at the node top of the tree m:
\* a single one around top, or a double one, around a child of top and then
\* around top, lifting the same node both times.
OneRotationAt(m, rots, top) ==
    \/ Len(rots) = 1 /\ rots[1].node = top
    \/ /\ Len(rots) = 2
       /\ rots[2].node = top
       /\ rots[1].node \in {m.left[top], m.right[top]}
       /\ rots[1].x = rots[2].x

\* C21: every AvlTree_insert or AvlTree_get_or_insert that adds a node
\* performs no rotation or exactly one (a double rotation counting as one),
\* and the rotation, if any, is applied at the rotate root: the deepest
\* node on the descent path whose balance factor was nonzero before the
\* insert.
C21_OneRotationAtRotateRoot ==
    [][AddsNode =>
        LET path == DescentPath(Machine, root, last'.key)
            at   == RotateRootAt(Machine, path)
            rots == SelectSeq(log', IsRotation)
        IN  \/ rots = << >>
            \/ at # 0 /\ OneRotationAt(Machine, rots, path[at])]_vars

\* C21 witness: an insert has returned after a double rotation at a rotate
\* root that was not the root of the tree.
C21_Witness ==
    /\ last.op = "insert"
    /\ fault = "none"
    /\ Len(SelectSeq(log, IsRotation)) = 2
    /\ SelectSeq(log, IsRotation)[2].node # before.root

\* The node the edge above position i of the descent path points at after
\* the step (the root for the first position).
EdgeTargetNext(path, i, key) ==
    IF i = 1 THEN root'
    ELSE IF key < KeyOf(path[i - 1]) THEN left'[path[i - 1]]
    ELSE right'[path[i - 1]]

\* The node at position i of the descent path keeps its balance factor and
\* its links, except that the edge towards position i + 1 may change when
\* redirect allows it.
KeepsFields(path, i, key, redirect) ==
    /\ bf'[path[i]] = bf[path[i]]
    /\ (redirect /\ key < KeyOf(path[i])) \/ left'[path[i]] = left[path[i]]
    /\ (redirect /\ KeyOf(path[i]) < key) \/ right'[path[i]] = right[path[i]]

\* C22: an insertion of an absent key changes the balance factor of no node
\* outside the suffix of the descent path that runs from the rotate root (the
\* root of the tree when no node on the path leans) down to the new leaf;
\* every node strictly above the rotate root keeps its links and balance
\* factor, only the edge pointing at the rotate root may be redirected; and
\* the subtree hanging from that edge is as high after the insert, rotated
\* or not, as it was before.
C22_InsertFrame ==
    [][AddsNode =>
        LET path  == DescentPath(Machine, root, last'.key)
            at    == RotateRootAt(Machine, path)
            first == IF at = 0 THEN 1 ELSE at
            suffix == {path[i] : i \in first..Len(path)} \cup {last'.node}
        IN  /\ \A n \in Nodes \ suffix : bf'[n] = bf[n]
            /\ \A i \in 1..(first - 1) :
                   KeepsFields(path, i, last'.key, i = first - 1)
            /\ at # 0 =>
                   Height(MachineNext, EdgeTargetNext(path, at, last'.key))
                     = Height(Machine, path[at])]_vars

\* C22 witness: an insert has returned after a rotation below a root that
\* leaned before the insert and leans the same way after it.
C22_Witness ==
    /\ last.op = "insert"
    /\ last.ret = NULL
    /\ fault = "none"
    /\ Len(SelectSeq(log, IsRotation)) = 1
    /\ SelectSeq(log, IsRotation)[1].node # before.root
    /\ before.bf[before.root] # 0
    /\ root = before.root
    /\ bf[root] = before.bf[before.root]

(***************************************************************************)
(* Properties of the delete retrace.                                       *)
(***************************************************************************)
\* The rules of the pass recorded at lg[i], in a call that ended in the
\* tree `after`: the passes that follow it, and the rotations it made.
RetraceRule(lg, i, after) ==
    LET e == lg[i]
        v == e.x.bf
        s == e.x.sibling
        later == {j \in (i + 1)..Len(lg) : lg[j].ev = "retrace"}
        rots == {j \in (i + 1)..Len(lg) :
                    IsRotation(lg[j]) /\ \A k \in later : j < k}
        continues == later # {}
    IN  /\ v \in {-2, -1, 0, 1, 2}
        /\ v \in {-1, 1} => ~continues /\ rots = {}
        /\ v = 0 => rots = {} /\ (continues <=> e.x.depth > 0)
        /\ v \in {-2, 2} =>
               /\ e.x.heavy # NULL
               /\ Cardinality(rots) = IF s * v < 0 THEN 2 ELSE 1
               /\ s = 0 =>
                      /\ ~continues
                      /\ after.bf[e.node] = v \div 2
                      /\ after.bf[e.x.heavy] = -(v \div 2)
               /\ s # 0 => (continues <=> e.x.depth > 0)

\* C23 (as stated): the retrace of a removal runs by these rules to its
\* end: after a node's balance factor is adjusted, a new value of -1 or +1
\* stops the retrace with no ancestor touched; 0 continues to the parent;
\* -2 or +2 rotates as the heavy child's balance factor says (a double
\* rotation when it leans the other way) and continues to the parent
\* unless that balance factor was 0, in which case the single rotation
\* leaves node = +1 and the child = -1 (mirrored for the left-heavy case)
\* and the loop ends.
C23_RetraceRules ==
    [][(last'.op = "remove" /\ last'.key \in ref) =>
          /\ fault' = "none"
          /\ \A i \in 1..Len(log') :
                 log'[i].ev = "retrace" => RetraceRule(log', i, MachineNext)]_vars

\* The leftmost node of the subtree of m rooted at n.
RECURSIVE Leftmost(_, _)
Leftmost(m, n) == IF m.left[n] = NULL THEN n ELSE Leftmost(m, m.left[n])

\* The place of node n on a descent path, 0 when it is not on it.
PlaceOn(path, n) ==
    IF \E d \in 1..Len(path) : path[d] = n
    THEN CHOOSE d \in 1..Len(path) : path[d] = n
    ELSE 0

\* The swap recorded in e put the inorder successor of node n of the tree
\* m in n's place, with n's children and balance factor, and on the trail.
SwapRule(e, m, n) ==
    LET successor == Leftmost(m, m.right[n])
        depth == PlaceOn(DescentPath(m, m.root, KeyOf(n)), n)
    IN  /\ e.node = successor
        /\ e.x.occupant = successor
        /\ e.x.left = m.left[n]
        /\ e.x.right = IF successor = m.right[n] THEN m.right[successor]
                       ELSE m.right[n]
        /\ e.x.bf = m.bf[n]
        /\ depth \in 1..Len(e.x.trail)
        /\ e.x.trail[depth] = successor
        /\ \A d \in 1..Len(e.x.trail) : e.x.trail[d] # n

\* C25 (as stated): when AvlTree_remove removes a node with two children
\* (the root included, and also when the successor is the node's right
\* child), the node in its place before the retrace is its inorder
\* successor, with the removed node's left subtree, right subtree (less
\* the successor) and balance factor, and the trail entry of that depth
\* holds the successor.
C25_SuccessorTakesPlace ==
    [][\A n \in InTree :
          (/\ last'.op = "remove"
           /\ last'.key = KeyOf(n)
           /\ left[n] # NULL
           /\ right[n] # NULL) =>
              \E i \in 1..Len(log') :
                  log'[i].ev = "swap" /\ SwapRule(log'[i], Machine, n)]_vars

\* The deleter calls of the running call, in the order they were made.
DeleterCalls(lg) == SelectSeq(lg, LAMBDA e : e.ev = "deleter")

\* C26: AvlTree_clear ends for every tree, and calls the deleter in
\* ascending key order: once on each node of the tree, each node having
\* no left child when it is passed and comparing less than every node not
\* yet deleted.
C26_ClearInOrder ==
    [][last'.op = "clear" =>
          LET d == DeleterCalls(log')
              done(i) == {d[j].node : j \in 1..i}
          IN  /\ fault' = "none"
              /\ root' = NULL
              /\ len' = 0
              /\ Len(d) = Cardinality(InTree)
              /\ done(Len(d)) = InTree
              /\ \A i \in 1..Len(d) :
                     /\ d[i].x = NULL
                     /\ \A n \in InTree \ done(i) :
                            Compare(KeyOf(d[i].node), n) < 0]_vars

\* C26 witness: a clear has passed four nodes to the deleter and had to
\* rotate left children out of the way.
C26_Witness ==
    /\ last.op = "clear"
    /\ fault = "none"
    /\ Len(DeleterCalls(log)) >= 4
    /\ \E i \in 1..Len(log) : log[i].ev = "rotate_right"

(***************************************************************************)
(* Properties of the trail storage.                                        *)
(***************************************************************************)
\* The places of the events named ev in the record of a call.
Events(lg, ev) == {i \in 1..Len(lg) : lg[i].ev = ev}

\* C28: every AvlTree_insert, AvlTree_get_or_insert and AvlTree_remove
\* call that returns has released the trail storage it acquired, on every
\* return path: the BitStack was dropped once, holding no heap block
\* afterwards; AvlTree_remove allocated its NodeStack once and freed it;
\* the other two allocated none; and no trail was used after its drop.
C28_TrailsReleased ==
    [][(last'.op \in {"insert", "get_or_insert", "remove"}
          /\ fault' = "none") =>
          LET held == Events(log', "NodeStack_malloc")
              freed == Events(log', "NodeStack_free")
              dropped == Events(log', "BitStack_drop")
          IN  /\ Cardinality(dropped) = 1
              /\ \A i \in dropped : log'[i].x = 0
              /\ Cardinality(held) = IF last'.op = "remove" THEN 1 ELSE 0
              /\ Cardinality(freed) = Cardinality(held)
              /\ \A i \in held : \A j \in freed :
                     i < j /\ log'[i].x = log'[j].x
              /\ \A i \in dropped \cup freed : \A j \in (i + 1)..Len(log') :
                     j \in dropped \cup freed]_vars

\* C28 witness: a removal has returned on the key-absent path of a tree
\* that is not empty, with its NodeStack freed.
C28_Witness ==
    /\ last.op = "remove"
    /\ last.ret = NULL
    /\ fault = "none"
    /\ root # NULL
    /\ Events(log, "NodeStack_free") # {}

\* C29: during AvlTree_remove the node trail (descent path plus successor
\* path) never holds more nodes than the max_height(len) + 1 reserved at
\* the start of the call: the one allocation is that reservation, every
\* push finds a free slot, and NodeStack_push never grows the stack.
C29_TrailFitsReservation ==
    [][last'.op = "remove" =>
          /\ Events(log', "NodeStack_realloc") = {}
          /\ \A i \in Events(log', "NodeStack_malloc") :
                 i = 1 /\ log'[i].x = max_height(len) + 1
          /\ \A i \in Events(log', "NodeStack_push") : log'[i].x >= 0
          /\ Cardinality(Events(log', "NodeStack_push"))
               <= max_height(len) + 1]_vars

\* C29 witness: a removal of a node with two children has returned after
\* pushing the descent path and the path to the successor.
C29_Witness ==
    /\ last.op = "remove"
    /\ fault = "none"
    /\ Events(log, "swap") # {}
    /\ Cardinality(Events(log, "NodeStack_push")) >= 3

(***************************************************************************)
(* Properties of the factory call.                                         *)
(***************************************************************************)
\* C30 (as stated): when AvlTree_get_or_insert calls the factory, the
\* tree is as it was before the call: root, len, the links and the
\* balance factors of every node are unchanged, and len is the number of
\* nodes reachable from root.
C30_FactorySeesQuiescentTree ==
    [][last'.op = "get_or_insert" =>
          \A i \in Events(log', "factory") :
              /\ log'[i].x = Shape(Machine)
              /\ log'[i].x.len
                   = Cardinality(NodesBelow(log'[i].x, log'[i].x.root))]_vars

\* C34: reads outside a trail's stored range give the absent indicator,
\* and the retrace loop runs on these indicators alone.  BitStack_get at an
\* index >= len and BitStack_pop on an empty stack give -1, and inside
\* the range they give a bit.  In the retrace every pass is made on a
\* popped node and a popped bit, takes the root edge exactly when
\* BitStack_get(is_left_flags, 0) gave -1, which is exactly when no bit
\* and no node is left; and the loop breaks on the pops exactly when
\* NodeStack_pop gave NULL and BitStack_pop gave -1 on empty trails,
\* after which no pass follows.
C34_AbsentIndicators ==
    /\ \A index \in 0..(BitStack_len(stack.self) + 1) :
           BitStack_get(stack.self, index) = -1
             <=> index >= BitStack_len(stack.self)
    /\ BitStack_pop(stack.self).bit = -1 <=> BitStack_len(stack.self) = 0
    /\ \A i \in Events(log, "retrace") :
           /\ log[i].node # NULL
           /\ log[i].x.is_left \in {0, 1}
           /\ log[i].x.parent_dir \in {-1, 0, 1}
           /\ log[i].x.parent_dir = -1 <=> log[i].x.bits = 0
           /\ log[i].x.root_edge <=> log[i].x.parent_dir = -1
           /\ log[i].x.bits = log[i].x.depth
    /\ \A i \in Events(log, "retrace_stop") :
           /\ log[i].node = NULL
           /\ log[i].x.is_left = -1
           /\ log[i].x.depth = 0
           /\ log[i].x.bits = 0
           /\ \A j \in Events(log, "retrace") : j < i

\* C34 witness: a removal has returned whose retrace made a pass on the
\* root edge and then broke out on the two empty trails.
C34_Witness ==
    /\ last.op = "remove"
    /\ fault = "none"
    /\ \E i \in Events(log, "retrace") : log[i].x.root_edge
    /\ Events(log, "retrace_stop") # {}

\* C35 (as stated): NodeStack_get indexes as its header documents and as
\* AvlTree_remove relies on: with the index -1 it returns the node pushed
\* last, and it returns NULL only when the stack holds no such element.
C35_GetFromTop ==
    \A i \in Events(log, "NodeStack_get") :
        log[i].x.index = -1 => log[i].node = log[i].x.top

(***************************************************************************)
(* Properties of the nodes handed back to the caller.                      *)
(***************************************************************************)
\* C31: the node AvlTree_remove returns, and the node a duplicate-key
\* AvlTree_insert displaces and returns, is detached when the caller gets
\* it: its left and right are NULL, its balance factor is 0, and it is no
\* longer reachable from the root.
C31_ReturnedNodeDetached ==
    (fault = "none" /\ last.op \in {"remove", "insert"} /\ last.ret # NULL) =>
        /\ left[last.ret] = NULL
        /\ right[last.ret] = NULL
        /\ bf[last.ret] = 0
        /\ last.ret \notin InTree

\* C31 witness: a removal has returned a node that had two children, its
\* successor standing in its place.
C31_Witness ==
    /\ last.op = "remove"
    /\ last.ret # NULL
    /\ fault = "none"
    /\ Events(log, "swap") # {}

(***************************************************************************)
(* Properties of the double rotations.                                     *)
(***************************************************************************)
\* The balance factors a double rotation stored, by bottom's balance factor
\* before it: `lean` gives top = -lean and middle = 0, 0 gives 0 and 0,
\* -lean gives top = 0 and middle = lean; bottom ends at 0.
FactorTable(x, lean) ==
    /\ x.was \in {-1, 0, 1}
    /\ x.bottom_bf = 0
    /\ x.was = lean => x.top_bf = -lean /\ x.middle_bf = 0
    /\ x.was = 0 => x.top_bf = 0 /\ x.middle_bf = 0
    /\ x.was = -lean => x.top_bf = 0 /\ x.middle_bf = lean

\* The double rotations the running call made.
DoubleRotations(ev) == {i \in 1..Len(log) : log[i].ev = ev}

\* C24 (as stated): a left-right double rotation (T.left == M,
\* M.right == B) stores B.bf == +1 as T.bf = -1 and M.bf = 0, B.bf == 0 as
\* 0 and 0, B.bf == -1 as T.bf = 0 and M.bf = +1, and B.bf = 0 always; the
\* right-left rotation stores the same table with the signs mirrored.
C24_LeftRightTableAsStated ==
    /\ \A i \in DoubleRotations("leftright") : FactorTable(log[i].x, 1)
    /\ \A i \in DoubleRotations("rightleft") : FactorTable(log[i].x, -1)

\* C24 (amended): the table belongs to the right-left rotation
\* (T.right == M, M.left == B): B.bf == +1 gives T.bf = -1 and M.bf = 0,
\* B.bf == 0 gives 0 and 0, B.bf == -1 gives T.bf = 0 and M.bf = +1.  The
\* left-right rotation (T.left == M, M.right == B) is its mirror:
\* B.bf == -1 gives T.bf = +1 and M.bf = 0, B.bf == +1 gives T.bf = 0 and
\* M.bf = -1.  B.bf becomes 0 in every case, and the factors stored are
\* the height differences of the rotated tree.
C24_DoubleRotationTable ==
    /\ \A i \in DoubleRotations("rightleft") :
           /\ FactorTable(log[i].x, 1)
           /\ right[log[i].x.bottom] = log[i].x.middle
           /\ left[log[i].x.bottom] = log[i].node
    /\ \A i \in DoubleRotations("leftright") :
           /\ FactorTable(log[i].x, -1)
           /\ left[log[i].x.bottom] = log[i].x.middle
           /\ right[log[i].x.bottom] = log[i].node
    /\ (DoubleRotations("leftright") \cup DoubleRotations("rightleft") # {}
          /\ fault = "none") =>
           \A n \in InTree :
               bf[n] = Height(Machine, right[n]) - Height(Machine, left[n])

\* C24 witness: a removal has returned after a left-right rotation whose
\* bottom node leaned right (B.bf == +1).
C24_Witness ==
    /\ last.op = "remove"
    /\ fault = "none"
    /\ \E i \in DoubleRotations("leftright") : log[i].x.was = 1

(***************************************************************************)
(* Properties of the BitStack.                                             *)
(***************************************************************************)
\* C27 (as stated): a BitStack created with BitStack_from_adopted_slice
\* keeps its contents across the switch from the adopted array to heap
\* storage: BitStack_get returns the bit pushed `index` pushes before the
\* top, also after more bits were pushed than the array holds.  (The bit
\* BitStack_pop returns is the one BitStack_get(0) returns before it.)
C27_BitsSurviveGrowth ==
    (stack.call.op = "get" /\ stack.call.index < Len(stack.pushed)) =>
        stack.call.ret = stack.pushed[Len(stack.pushed) - stack.call.index]

====
